---- MODULE Spec2Model ----
(***************************************************************************)
(* A model of the Gong MCP server of src/src/lib.rs: the configuration     *)
(* gate, the resource URI router, the search_calls tool and the shaping    *)
(* of the upstream answers.                                                *)
(*                                                                         *)
(* Conventions:                                                            *)
(*   - Option<T> is a sequence: None is << >> and Some(v) is <<v>>.        *)
(*   - Rust strings are TLA+ strings; starts_with, ends_with,              *)
(*     strip_prefix and strip_suffix are computed on their characters.     *)
(*   - serde_json values are records [k |-> kind, v |-> payload].          *)
(*   - one request is served at a time; an upstream API call is a          *)
(*     suspension point (pc = "awaiting") that the upstream answers.       *)
(***************************************************************************)
EXTENDS Integers, Sequences, FiniteSets, TLC

VARIABLES
    env,        \* the three environment values read by GongServer::new
    config,     \* GongServer.config : Option<Configuration>
    pc,         \* "ready" | "awaiting" | "done"
    request,    \* the protocol request being served
    frame,      \* the handler's locals that live across the upstream await
    upstream,   \* the upstream API calls issued for the current request
    reply,      \* the upstream answer received for the current request
    response    \* the handler's result

vars == <<env, config, pc, request, frame, upstream, reply, response>>

----------------------------------------------------------------------------
(* Bounds of the model *)

\* number of atoms appended to "gong://calls" to build a request URI
MaxAtoms == 4
\* number of calls in an upstream page answered to search_calls
MaxCalls == 3
\* largest limit argument given to search_calls
MaxLimit == 4
\* number of calls in an upstream page answered to a lookup of one call id
MaxMatches == 2
\* number of monologues of an upstream transcript
MaxMonologues == 2
\* number of users in an upstream user page
MaxUsers == 2
\* the requests the server handles at the same time
MaxSessions == 2

----------------------------------------------------------------------------
(* Option<T> *)

None == << >>
Some(v) == <<v>>
IsSome(o) == o # None
IsNone(o) == o = None
Unwrap(o) == o[1]
UnwrapOr(o, d) == IF o = None THEN d ELSE o[1]
OptMap(o, F(_)) == IF o = None THEN None ELSE Some(F(o[1]))
AndThen(o, F(_)) == IF o = None THEN None ELSE F(o[1])

----------------------------------------------------------------------------
(* str *)

StartsWith(s, p) ==
    /\ Len(s) >= Len(p)
    /\ SubSeq(s, 1, Len(p)) = p

\* str::contains
Contains(s, x) ==
    \E i \in 1..(Len(s) - Len(x) + 1) : SubSeq(s, i, i + Len(x) - 1) = x

\* mutant: the suffix test done as substring containment
EndsWith_Contains(s, x) == Contains(s, x)

EndsWith(s, x) ==
    /\ Len(s) >= Len(x)
    /\ SubSeq(s, Len(s) - Len(x) + 1, Len(s)) = x

StripPrefix(s, p) ==
    IF StartsWith(s, p) THEN Some(SubSeq(s, Len(p) + 1, Len(s))) ELSE None

StripSuffix(s, x) ==
    IF EndsWith(s, x) THEN Some(SubSeq(s, 1, Len(s) - Len(x))) ELSE None

IsEmpty(s) == Len(s) = 0

----------------------------------------------------------------------------
(* serde_json::Value *)

\* one record shape for every value: k is the kind and the slot of that kind
\* (s string, n number, b bool, a array, o object) holds the payload
JBlank == [k |-> "null", s |-> "", n |-> 0, b |-> FALSE, a |-> << >>, o |-> << >>]
JNull == JBlank
JBool(x) == [JBlank EXCEPT !.k = "bool", !.b = x]
\* a number held as an integer (PosInt or NegInt)
JNum(x) == [JBlank EXCEPT !.k = "number", !.n = x]
\* a number held as a float with a fractional part; n is its integer part
JFloat(x) == [JBlank EXCEPT !.k = "float", !.n = x]
JStr(x) == [JBlank EXCEPT !.k = "string", !.s = x]
JArr(x) == [JBlank EXCEPT !.k = "array", !.a = x]
JObj(x) == [JBlank EXCEPT !.k = "object", !.o = x]

\* json!(x) of an Option: null or the value
JOpt(o, F(_)) == IF o = None THEN JNull ELSE F(o[1])
JOptStr(o) == JOpt(o, JStr)
JOptNum(o) == JOpt(o, JNum)
JOptBool(o) == JOpt(o, JBool)

\* Value::as_str, as_u64, as_bool, as_array
AsStr(j) == IF j.k = "string" THEN Some(j.s) ELSE None
AsU64(j) == IF j.k = "number" /\ j.n >= 0 THEN Some(j.n) ELSE None
AsBool(j) == IF j.k = "bool" THEN Some(j.b) ELSE None
AsArray(j) == IF j.k = "array" THEN Some(j.a) ELSE None

\* Map::get on the argument bag (a function from its keys to values)
MapGet(a, key) == IF key \in DOMAIN a THEN Some(a[key]) ELSE None

----------------------------------------------------------------------------
(* iterators *)

RECURSIVE SeqMap(_, _)
SeqMap(F(_), s) ==
    IF s = << >> THEN << >> ELSE <<F(Head(s))>> \o SeqMap(F, Tail(s))

RECURSIVE FilterMap(_, _)
\* Iterator::filter_map: keeps the Some results, in order
FilterMap(F(_), s) ==
    IF s = << >> THEN << >>
    ELSE F(Head(s)) \o FilterMap(F, Tail(s))

RECURSIVE FilterCount(_, _)
\* Iterator::filter(..).count()
FilterCount(P(_), s) ==
    IF s = << >> THEN 0
    ELSE (IF P(Head(s)) THEN 1 ELSE 0) + FilterCount(P, Tail(s))

\* mutant: the last n elements are kept
Take_Last(s, n) == SubSeq(s, (IF n < Len(s) THEN Len(s) - n ELSE 0) + 1, Len(s))

\* Iterator::take(n)
Take(s, n) == SubSeq(s, 1, IF n < Len(s) THEN n ELSE Len(s))

\* slice::first
First(s) == IF s = << >> THEN None ELSE Some(s[1])

----------------------------------------------------------------------------
(* McpError *)

NoError == [code |-> "", message |-> "", data |-> None]
McpError(code, message, data) == [code |-> code, message |-> message, data |-> data]
invalid_request(message, data) == McpError("INVALID_REQUEST", message, data)
invalid_params(message, data) == McpError("INVALID_PARAMS", message, data)
resource_not_found(message, data) == McpError("RESOURCE_NOT_FOUND", message, data)
internal_error(message, data) == McpError("INTERNAL_ERROR", message, data)

Ok(body) == [ok |-> TRUE, error |-> NoError, body |-> body]
Err(e) == [ok |-> FALSE, error |-> e, body |-> JNull]
NoResponse == [ok |-> FALSE, error |-> NoError, body |-> JNull]

----------------------------------------------------------------------------
(* GongServer::new and the configuration gate *)

EnvValues ==
    [GONG_BASE_URL : {None, Some("https://api.gong.io")},
     GONG_ACCESS_KEY : {None, Some("test_key")},
     GONG_ACCESS_KEY_SECRET : {None, Some("test_secret")}]

\* mutant: the configuration is built as soon as the endpoint is supplied
New_BaseUrlOnly(e) ==
    IF IsSome(e.GONG_BASE_URL)
    THEN Some([base_path |-> Unwrap(e.GONG_BASE_URL),
               basic_auth |-> Some(<<UnwrapOr(e.GONG_ACCESS_KEY, ""),
                                     Some(UnwrapOr(e.GONG_ACCESS_KEY_SECRET, ""))>>)])
    ELSE None

New(e) ==
    IF /\ IsSome(e.GONG_BASE_URL)
       /\ IsSome(e.GONG_ACCESS_KEY)
       /\ IsSome(e.GONG_ACCESS_KEY_SECRET)
    THEN Some([base_path |-> Unwrap(e.GONG_BASE_URL),
               basic_auth |-> Some(<<Unwrap(e.GONG_ACCESS_KEY),
                                     Some(Unwrap(e.GONG_ACCESS_KEY_SECRET))>>)])
    ELSE None

_is_configured(cfg) == IsSome(cfg)

----------------------------------------------------------------------------
(* The upstream API (gong_rs): request parameters *)

\* an enum value of gong_rs::models; format!("{:?}", e) prints its variant
Enum(variant) == [variant |-> variant]
DebugFmt(e) == e.variant

\* mutant: the call outcome is requested along with the structure
ListCallsParams_WithOutcome(from_date_time, to_date_time, workspace_id, call_ids, primary_user_ids, cursor, include_structure) ==
    [cursor |-> cursor,
     filter |-> [from_date_time |-> from_date_time,
                 to_date_time |-> to_date_time,
                 workspace_id |-> workspace_id,
                 call_ids |-> call_ids,
                 primary_user_ids |-> primary_user_ids],
     content_selector |-> Some(
        [context |-> None,
         context_timing |-> None,
         exposed_fields |-> Some(
            [collaboration |-> None,
             content |-> IF include_structure
                         THEN Some([structure |-> Some(TRUE),
                                    topics |-> None,
                                    trackers |-> None,
                                    tracker_occurrences |-> None,
                                    points_of_interest |-> None,
                                    brief |-> None,
                                    outline |-> None,
                                    highlights |-> None,
                                    call_outcome |-> Some(TRUE),
                                    key_points |-> None])
                         ELSE None,
             parties |-> Some(TRUE),
             interaction |-> None,
             media |-> None])])]

\* calls_api::ListCallsExtensiveParams as built by _fetch_calls_with_filter
ListCallsParams(from_date_time, to_date_time, workspace_id, call_ids, primary_user_ids, cursor, include_structure) ==
    [cursor |-> cursor,
     filter |-> [from_date_time |-> from_date_time,
                 to_date_time |-> to_date_time,
                 workspace_id |-> workspace_id,
                 call_ids |-> call_ids,
                 primary_user_ids |-> primary_user_ids],
     content_selector |-> Some(
        [context |-> None,
         context_timing |-> None,
         exposed_fields |-> Some(
            [collaboration |-> None,
             content |-> IF include_structure
                         THEN Some([structure |-> Some(TRUE),
                                    topics |-> None,
                                    trackers |-> None,
                                    tracker_occurrences |-> None,
                                    points_of_interest |-> None,
                                    brief |-> None,
                                    outline |-> None,
                                    highlights |-> None,
                                    call_outcome |-> None,
                                    key_points |-> None])
                         ELSE None,
             parties |-> Some(TRUE),
             interaction |-> None,
             media |-> None])])]

\* mutant: the transcript request carries no call id filter
GetCallTranscriptsParams_AllCalls(call_id) ==
    [cursor |-> None,
     filter |-> [from_date_time |-> None,
                 to_date_time |-> None,
                 workspace_id |-> None,
                 call_ids |-> None]]

\* calls_api::GetCallTranscriptsParams as built by _fetch_transcript
GetCallTranscriptsParams(call_id) ==
    [cursor |-> None,
     filter |-> [from_date_time |-> None,
                 to_date_time |-> None,
                 workspace_id |-> None,
                 call_ids |-> Some(<<call_id>>)]]

\* users_api::ListUsersParams as built by the gong://users arm
ListUsersParams == [cursor |-> None, include_avatars |-> Some(FALSE)]

ApiCall(api, params) == [api |-> api, params |-> params]

----------------------------------------------------------------------------
(* The upstream API: the answers it may give (the environment) *)

Party(id, name, affiliation, speaker_id) ==
    [id |-> id, name |-> name, email_address |-> None, title |-> None,
     affiliation |-> affiliation, speaker_id |-> speaker_id, user_id |-> None,
     phone_number |-> None, methods |-> None, context |-> None]

PartyInternal ==
    [id |-> Some("p1"), name |-> Some("Ann"),
     email_address |-> Some("ann@corp.example"), title |-> Some("AE"),
     affiliation |-> Some(Enum("Internal")), speaker_id |-> Some("s1"),
     user_id |-> Some("u1"), phone_number |-> Some("+1555"),
     methods |-> Some(<<Enum("Invitee"), Enum("Attendee")>>),
     context |-> Some(<<[system |-> Some(Enum("Salesforce")),
                         objects |-> None]>>)]
PartyExternal == Party(Some("p2"), Some("Bob"), Some(Enum("External")), Some("s2"))
PartyUnknown == Party(Some("p3"), None, Some(Enum("Unknown")), Some("s1"))
PartyBare == Party(None, None, None, None)
\* a speaker of whom the upstream knows the speaker id alone
PartyAnonymous == Party(None, None, None, Some("s4"))

MetaNone ==
    [id |-> None, url |-> None, title |-> None, scheduled |-> None,
     started |-> None, duration |-> None, direction |-> None,
     primary_user_id |-> None, system |-> None, scope |-> None,
     media |-> None, language |-> None, workspace_id |-> None,
     sdr_disposition |-> None, client_unique_id |-> None,
     custom_data |-> None, purpose |-> None, meeting_url |-> None,
     is_private |-> None, calendar_event_id |-> None]

MetaFull ==
    [id |-> Some("c1"), url |-> Some("https://app.gong.io/call?id=c1"),
     title |-> Some("Demo"), scheduled |-> Some("2024-01-01T10:00:00Z"),
     started |-> Some("2024-01-01T10:01:00Z"), duration |-> Some(1800),
     direction |-> Some(Enum("Inbound")), primary_user_id |-> Some("u1"),
     system |-> Some("Zoom"), scope |-> Some(Enum("External")),
     media |-> Some(Enum("Video")), language |-> Some("eng"),
     workspace_id |-> Some("W123"), sdr_disposition |-> Some("Got the gatekeeper"),
     client_unique_id |-> Some("k1"), custom_data |-> Some("custom"),
     purpose |-> Some("Demo Call"), meeting_url |-> Some("https://zoom.us/j/1"),
     is_private |-> Some(FALSE), calendar_event_id |-> Some("e1")]

MetaIdOnly == [MetaNone EXCEPT !.id = Some("c3")]

UpCall(meta_data, parties) == [meta_data |-> meta_data, parties |-> parties]

CallPool ==
    {UpCall(Some(MetaFull), Some(<<PartyInternal, PartyExternal>>)),
     UpCall(None, None),
     UpCall(Some(MetaIdOnly), Some(<<PartyUnknown, PartyBare, PartyInternal, PartyAnonymous>>))}

RECURSIVE SeqsUpTo(_, _)
\* the sequences over S of length at most n
SeqsUpTo(S, n) ==
    IF n = 0 THEN {<< >>}
    ELSE LET shorter == SeqsUpTo(S, n - 1)
         IN  shorter \cup {Append(q, x) : q \in shorter, x \in S}

RecordsPool == {None, Some([cursor |-> None]), Some([cursor |-> Some("cur2")])}

\* Result<T, Error<E>> of an upstream operation
UpOk(value) == [ok |-> TRUE, value |-> Some(value), error |-> ""]
UpErr(text) == [ok |-> FALSE, value |-> None, error |-> text]
NoReply == [ok |-> FALSE, value |-> None, error |-> ""]

\* e.to_string() of the failures the upstream client may report
UpstreamErrors ==
    {"error in response: status code 500 Internal Server Error",
     "error in response: status code 404 Not Found",
     "error in serde: call not found"}

\* answers of listCalls to search_calls
SearchAnswers ==
    {UpOk([calls |-> c, records |-> r]) :
        c \in {None} \cup {Some(q) : q \in SeqsUpTo(CallPool, MaxCalls)},
        r \in RecordsPool}
    \cup {UpErr(e) : e \in UpstreamErrors}

\* answers of listCalls to a lookup filtered by one call id
LookupAnswers ==
    {UpOk([calls |-> c, records |-> None]) :
        c \in {None} \cup {Some(q) : q \in SeqsUpTo(CallPool, MaxMatches)}}
    \cup {UpErr(e) : e \in UpstreamErrors}

Sentence(start, end, text) == [start |-> start, end |-> end, text |-> text]
Monologue(speaker_id, sentences) ==
    [speaker_id |-> speaker_id, topic |-> None, sentences |-> sentences]

MonologuePool ==
    {Monologue(Some("s1"), Some(<<Sentence(Some(0), Some(5), Some("Hi")),
                                  Sentence(Some(5), Some(9), Some("Welcome"))>>)),
     Monologue(Some("s2"), Some(<<Sentence(Some(9), Some(12), Some("Thanks"))>>)),
     Monologue(None, Some(<<Sentence(None, None, None)>>)),
     Monologue(Some("s3"), None)}

TranscriptPool ==
    {[call_id |-> Some("c1"), transcript |-> Some(m)] : m \in SeqsUpTo(MonologuePool, MaxMonologues)}
    \cup {[call_id |-> None, transcript |-> None]}

\* answers of getCallTranscripts
TranscriptAnswers ==
    {UpOk([call_transcripts |-> t]) :
        t \in {None, Some(<< >>)} \cup {Some(<<x>>) : x \in TranscriptPool}}
    \cup {UpErr(e) : e \in UpstreamErrors}

UserPool ==
    {[id |-> Some("u1"), email_address |-> Some("ann@corp.example"),
      first_name |-> Some("Ann"), last_name |-> Some("Lee"), active |-> Some(TRUE)],
     [id |-> None, email_address |-> None, first_name |-> None,
      last_name |-> None, active |-> None]}

\* answers of listUsers
UsersAnswers ==
    {UpOk([users |-> u]) : u \in {None} \cup {Some(q) : q \in SeqsUpTo(UserPool, MaxUsers)}}
    \cup {UpErr(e) : e \in UpstreamErrors}

----------------------------------------------------------------------------
(* The requests the protocol runtime may deliver (the environment) *)

Atoms == {"/", "x", "participants", "transcript"}

RECURSIVE Tails(_)
\* the concatenations of at most n atoms
Tails(n) ==
    IF n = 0 THEN {""}
    ELSE LET shorter == Tails(n - 1)
         IN  shorter \cup {t \o a : t \in shorter, a \in Atoms}

Uris ==
    {"gong://calls" \o t : t \in Tails(MaxAtoms)}
    \cup {"gong://status", "gong://users", "", "gong://status/", "gong://users/x",
          "gong://call/123", "gong://transcript/123", "gong://participants/123",
          "gong://calls/123456", "gong://calls/123456/transcript",
          "gong://calls/123456/participants", "gong://calls/123/participant",
          "gong://calls/abc-def-123/transcript", "xgong://calls/x/transcript"}

ToolNames == {"search_calls", "get_call", ""}

ArgKeys ==
    {"from_date_time", "to_date_time", "workspace_id", "call_ids",
     "primary_user_ids", "cursor", "limit", "include_structure"}

\* the values tried for each key: well typed ones and ill typed ones
ArgMenu ==
    [from_date_time |-> {JStr("2024-01-01T00:00:00Z"), JStr("2024-03-01T00:00:00Z"), JNum(20240101)},
     to_date_time |-> {JStr("2024-01-31T23:59:59Z"), JNull},
     workspace_id |-> {JStr("W123"), JBool(TRUE)},
     call_ids |-> {JArr(<<JStr("call1"), JStr("call2")>>), JArr(<< >>),
                   JArr(<<JStr("call1"), JNum(2)>>), JStr("call1")},
     primary_user_ids |-> {JArr(<<JStr("user1"), JStr("user2")>>), JNum(7)},
     cursor |-> {JStr("cur1"), JNum(1)},
     limit |-> {JNum(n) : n \in 0..MaxLimit}
               \cup {JNum(-1), JFloat(2), JStr("3"), JNull},
     include_structure |-> {JBool(TRUE), JBool(FALSE), JStr("true")}]

EmptyBag == [key \in {} |-> JNull]

\* the argument bag of test_parameter_extraction_from_json and
\* test_new_parameter_extraction put together
FullBag ==
    [from_date_time |-> JStr("2024-01-01T00:00:00Z"),
     to_date_time |-> JStr("2024-01-31T23:59:59Z"),
     workspace_id |-> JStr("W123"),
     call_ids |-> JArr(<<JStr("call1"), JStr("call2")>>),
     primary_user_ids |-> JArr(<<JStr("user1"), JStr("user2")>>),
     cursor |-> JStr("cur1"),
     limit |-> JNum(2),
     include_structure |-> JBool(TRUE)]

BagWith(bag, key, value) ==
    [x \in DOMAIN bag \cup {key} |-> IF x = key THEN value ELSE bag[x]]
BagWithout(bag, key) == [x \in DOMAIN bag \ {key} |-> bag[x]]

\* Option<JsonObject>: absent, empty, full, and each of the last two with
\* one key set to a value of its menu or removed
ArgBags ==
    {None, Some(EmptyBag), Some(FullBag)}
    \cup UNION {{Some(BagWith(b, key, value)) : value \in ArgMenu[key]} :
                    b \in {EmptyBag, FullBag}, key \in ArgKeys}
    \cup {Some(BagWithout(FullBag, key)) : key \in ArgKeys}

----------------------------------------------------------------------------
(* The handler's locals and its position at the first suspension point *)

NoArgs ==
    [from_date_time |-> None, to_date_time |-> None, workspace_id |-> None,
     call_ids |-> None, primary_user_ids |-> None, cursor |-> None,
     limit |-> None, include_structure |-> FALSE]

Frame(route, call_id, args) == [route |-> route, call_id |-> call_id, args |-> args]
NoFrame == Frame("", "", NoArgs)

\* the handler returned without suspending
Return(resp, f) ==
    [pc |-> "done", response |-> resp, upstream |-> << >>, frame |-> f]
\* the handler issued an upstream call and awaits its answer
Await(call, f) ==
    [pc |-> "awaiting", response |-> NoResponse, upstream |-> <<call>>, frame |-> f]

----------------------------------------------------------------------------
(* _fetch_calls_with_filter, _fetch_transcript: up to the await *)

_fetch_calls_with_filter(cfg, f, from_date_time, to_date_time, workspace_id, call_ids, primary_user_ids, cursor, include_structure) ==
    IF IsNone(cfg)
    THEN Return(Err(invalid_request("not_configured", None)), f)
    ELSE Await(ApiCall("listCalls",
                       ListCallsParams(from_date_time, to_date_time, workspace_id,
                                       call_ids, primary_user_ids, cursor,
                                       include_structure)), f)

_fetch_transcript(cfg, f, call_id) ==
    IF IsNone(cfg)
    THEN Return(Err(invalid_request("not_configured", None)), f)
    ELSE Await(ApiCall("getCallTranscripts", GetCallTranscriptsParams(call_id)), f)

\* the map_err of _fetch_calls_with_filter and of the gong://users arm
ApiError(text) ==
    internal_error("api_error", Some(JObj([error |-> JStr(text)])))

\* mutant: every failure of the transcript call is reported as api_error
TranscriptApiError_NeverNotFound(call_id, text) ==
    internal_error("api_error", Some(JObj([error |-> JStr(text)])))

\* the map_err of _fetch_transcript
TranscriptApiError(call_id, text) ==
    IF Contains(text, "404") \/ Contains(text, "not found")
    THEN resource_not_found("call_not_found",
            Some(JObj([callId |-> JStr(call_id), error |-> JStr(text)])))
    ELSE internal_error("api_error", Some(JObj([error |-> JStr(text)])))

----------------------------------------------------------------------------
(* list_resources, list_resource_templates, list_tools *)

_create_resource(uri, name, description) ==
    [uri |-> uri, name |-> name, description |-> Some(description)]

StatusResource ==
    _create_resource("gong://status", "Configuration Status",
                     "Check if the Gong API is configured correctly")
UsersResource ==
    _create_resource("gong://users", "Gong Users",
                     "List of users in your Gong workspace")

\* mutant: the users resource is listed whatever the configuration
list_resources_Ungated(cfg) ==
    [resources |-> <<StatusResource, UsersResource>>, next_cursor |-> None]

list_resources(cfg) ==
    IF ~_is_configured(cfg)
    THEN [resources |-> <<StatusResource>>, next_cursor |-> None]
    ELSE [resources |-> <<StatusResource, UsersResource>>, next_cursor |-> None]

list_resource_templates(cfg) ==
    IF ~_is_configured(cfg)
    THEN [resource_templates |-> << >>, next_cursor |-> None]
    ELSE [resource_templates |->
            <<[uri_template |-> "gong://calls/{callId}", name |-> "Call Metadata"],
              [uri_template |-> "gong://calls/{callId}/participants",
               name |-> "Call Participants"],
              [uri_template |-> "gong://calls/{callId}/transcript",
               name |-> "Call Transcript"]>>,
          next_cursor |-> None]

list_tools(cfg) ==
    IF ~_is_configured(cfg)
    THEN [tools |-> << >>, next_cursor |-> None]
    ELSE [tools |-> <<[name |-> "search_calls", properties |-> ArgKeys,
                       additionalProperties |-> FALSE, read_only |-> TRUE]>>,
          next_cursor |-> None]

----------------------------------------------------------------------------
(* read_resource: the router *)

CallsPrefix == "gong://calls/"
ParticipantsSuffix == "/participants"
TranscriptSuffix == "/transcript"

Routes == {"Status", "UserList", "CallDetail", "Participants", "Transcript", "Unrecognized"}

\* the guards of the match arms and of the if/else-if chain of the `_` arm
StatusGuard(uri) == uri = "gong://status"
UsersGuard(uri) == uri = "gong://users"
\* mutant: the suffix is matched without its leading slash
ParticipantsGuard_NoSlash(uri) ==
    StartsWith(uri, CallsPrefix) /\ EndsWith(uri, "participants")

ParticipantsGuard(uri) ==
    StartsWith(uri, CallsPrefix) /\ EndsWith(uri, ParticipantsSuffix)
\* mutant: the transcript suffix is matched without its leading slash
TranscriptGuard_NoSlash(uri) ==
    StartsWith(uri, CallsPrefix) /\ EndsWith(uri, "transcript")

TranscriptGuard(uri) ==
    StartsWith(uri, CallsPrefix) /\ EndsWith(uri, TranscriptSuffix)
CallDetailGuard(uri) == StartsWith(uri, CallsPrefix)

\* the arm read_resource enters for uri
Route(uri) ==
    IF StatusGuard(uri) THEN "Status"
    ELSE IF UsersGuard(uri) THEN "UserList"
    ELSE IF ParticipantsGuard(uri) THEN "Participants"
    ELSE IF TranscriptGuard(uri) THEN "Transcript"
    ELSE IF CallDetailGuard(uri) THEN "CallDetail"
    ELSE "Unrecognized"

\* the call id each arm extracts from the URI
ParticipantsCallId(uri) ==
    AndThen(StripPrefix(uri, CallsPrefix), LAMBDA t : StripSuffix(t, ParticipantsSuffix))
TranscriptCallId(uri) ==
    AndThen(StripPrefix(uri, CallsPrefix), LAMBDA t : StripSuffix(t, TranscriptSuffix))
CallDetailCallId(uri) == StripPrefix(uri, CallsPrefix)

NotConfiguredRead ==
    invalid_request("not_configured",
        Some(JObj([message |-> JStr("Gong API is not configured. Please set environment variables.")])))

InvalidUri(uri, expected) ==
    invalid_params("invalid_uri",
        Some(JObj([message |-> JStr("Invalid URI format. Expected: " \o expected),
                   uri |-> JStr(uri)])))

MissingCallId ==
    invalid_params("missing_call_id",
        Some(JObj([message |-> JStr("Call ID cannot be empty")])))

\* mutant: the endpoint is reported in both states
StatusBody_AlwaysUrl(cfg) ==
    JObj([configured |-> JBool(_is_configured(cfg)),
          base_url |-> JStr(UnwrapOr(OptMap(cfg, LAMBDA c : c.base_path), "unknown")),
          message |-> JStr("Gong API status")])

StatusBody(cfg) ==
    IF _is_configured(cfg)
    THEN JObj([configured |-> JBool(TRUE),
               base_url |-> JStr(UnwrapOr(OptMap(cfg, LAMBDA c : c.base_path), "unknown")),
               message |-> JStr("Gong API is configured and ready to use")])
    ELSE JObj([configured |-> JBool(FALSE),
               message |-> JStr("Gong API is not configured. Please set GONG_BASE_URL, GONG_ACCESS_KEY, and GONG_ACCESS_KEY_SECRET environment variables.")])

StatusArm(cfg, uri) == Return(Ok(StatusBody(cfg)), Frame("Status", "", NoArgs))

UsersArm(cfg, uri) ==
    LET f == Frame("UserList", "", NoArgs) IN
    IF ~_is_configured(cfg) THEN Return(Err(NotConfiguredRead), f)
    ELSE IF IsNone(cfg) THEN Return(Err(invalid_request("not_configured", None)), f)
    ELSE Await(ApiCall("listUsers", ListUsersParams), f)

\* mutant: the call id is extracted and checked before the gate
ParticipantsArm_ExtractFirst(cfg, uri) ==
    LET id == ParticipantsCallId(uri) IN
    IF IsNone(id)
    THEN Return(Err(InvalidUri(uri, "gong://calls/{callId}/participants")),
                Frame("Participants", "", NoArgs))
    ELSE IF IsEmpty(Unwrap(id))
    THEN Return(Err(MissingCallId), Frame("Participants", Unwrap(id), NoArgs))
    ELSE IF ~_is_configured(cfg)
    THEN Return(Err(NotConfiguredRead), Frame("Participants", "", NoArgs))
    ELSE _fetch_calls_with_filter(cfg, Frame("Participants", Unwrap(id), NoArgs),
            None, None, None, Some(<<Unwrap(id)>>), None, None, FALSE)

\* the three call arms: gate, extraction, emptiness check, upstream call
ParticipantsArm(cfg, uri) ==
    LET id == ParticipantsCallId(uri) IN
    IF ~_is_configured(cfg)
    THEN Return(Err(NotConfiguredRead), Frame("Participants", "", NoArgs))
    ELSE IF IsNone(id)
    THEN Return(Err(InvalidUri(uri, "gong://calls/{callId}/participants")),
                Frame("Participants", "", NoArgs))
    ELSE IF IsEmpty(Unwrap(id))
    THEN Return(Err(MissingCallId), Frame("Participants", Unwrap(id), NoArgs))
    ELSE _fetch_calls_with_filter(cfg, Frame("Participants", Unwrap(id), NoArgs),
            None, None, None, Some(<<Unwrap(id)>>), None, None, FALSE)

\* mutant: the emptiness check of the call id is left out
TranscriptArm_NoEmptyCheck(cfg, uri) ==
    LET id == TranscriptCallId(uri) IN
    IF ~_is_configured(cfg)
    THEN Return(Err(NotConfiguredRead), Frame("Transcript", "", NoArgs))
    ELSE IF IsNone(id)
    THEN Return(Err(InvalidUri(uri, "gong://calls/{callId}/transcript")),
                Frame("Transcript", "", NoArgs))
    ELSE _fetch_transcript(cfg, Frame("Transcript", Unwrap(id), NoArgs), Unwrap(id))

TranscriptArm(cfg, uri) ==
    LET id == TranscriptCallId(uri) IN
    IF ~_is_configured(cfg)
    THEN Return(Err(NotConfiguredRead), Frame("Transcript", "", NoArgs))
    ELSE IF IsNone(id)
    THEN Return(Err(InvalidUri(uri, "gong://calls/{callId}/transcript")),
                Frame("Transcript", "", NoArgs))
    ELSE IF IsEmpty(Unwrap(id))
    THEN Return(Err(MissingCallId), Frame("Transcript", Unwrap(id), NoArgs))
    ELSE _fetch_transcript(cfg, Frame("Transcript", Unwrap(id), NoArgs), Unwrap(id))

\* mutant: the emptiness check of the call id is left out
CallDetailArm_NoEmptyCheck(cfg, uri) ==
    LET id == CallDetailCallId(uri) IN
    IF ~_is_configured(cfg)
    THEN Return(Err(NotConfiguredRead), Frame("CallDetail", "", NoArgs))
    ELSE IF IsNone(id)
    THEN Return(Err(InvalidUri(uri, "gong://calls/{callId}")),
                Frame("CallDetail", "", NoArgs))
    ELSE _fetch_calls_with_filter(cfg, Frame("CallDetail", Unwrap(id), NoArgs),
            None, None, None, Some(<<Unwrap(id)>>), None, None, FALSE)

CallDetailArm(cfg, uri) ==
    LET id == CallDetailCallId(uri) IN
    IF ~_is_configured(cfg)
    THEN Return(Err(NotConfiguredRead), Frame("CallDetail", "", NoArgs))
    ELSE IF IsNone(id)
    THEN Return(Err(InvalidUri(uri, "gong://calls/{callId}")),
                Frame("CallDetail", "", NoArgs))
    ELSE IF IsEmpty(Unwrap(id))
    THEN Return(Err(MissingCallId), Frame("CallDetail", Unwrap(id), NoArgs))
    ELSE _fetch_calls_with_filter(cfg, Frame("CallDetail", Unwrap(id), NoArgs),
            None, None, None, Some(<<Unwrap(id)>>), None, None, FALSE)

UnknownResourceArm(uri) ==
    Return(Err(resource_not_found("resource_not_found", Some(JObj([uri |-> JStr(uri)])))),
           Frame("Unrecognized", "", NoArgs))

\* read_resource up to its first await or its return
read_resource(cfg, uri) ==
    LET route == Route(uri) IN
    CASE route = "Status" -> StatusArm(cfg, uri)
      [] route = "UserList" -> UsersArm(cfg, uri)
      [] route = "Participants" -> ParticipantsArm(cfg, uri)
      [] route = "Transcript" -> TranscriptArm(cfg, uri)
      [] route = "CallDetail" -> CallDetailArm(cfg, uri)
      [] OTHER -> UnknownResourceArm(uri)

----------------------------------------------------------------------------
(* read_resource: shaping of the upstream answers *)

AffiliationIs(party, tag) ==
    IsSome(party.affiliation) /\ DebugFmt(Unwrap(party.affiliation)) = tag

\* mutant: every participant that is not External counts as internal
InternalCount_NotExternal(parties) == FilterCount(LAMBDA q : ~AffiliationIs(q, "External"), parties)

InternalCount(parties) == FilterCount(LAMBDA q : AffiliationIs(q, "Internal"), parties)
ExternalCount(parties) == FilterCount(LAMBDA q : AffiliationIs(q, "External"), parties)
SpeakersCount(parties) == FilterCount(LAMBDA q : IsSome(q.speaker_id), parties)

JEnum(o) == JOptStr(OptMap(o, DebugFmt))

ContextJson(c) ==
    JObj([system |-> JEnum(c.system),
          objects |-> JOpt(c.objects, JArr)])

\* a participant of the gong://calls/{callId}/participants response
ParticipantJson(party) ==
    JObj([id |-> JOptStr(party.id),
          name |-> JOptStr(party.name),
          emailAddress |-> JOptStr(party.email_address),
          title |-> JOptStr(party.title),
          affiliation |-> JEnum(party.affiliation),
          speakerId |-> JOptStr(party.speaker_id),
          userId |-> JOptStr(party.user_id),
          phoneNumber |-> JOptStr(party.phone_number),
          methods |-> JOpt(party.methods,
                           LAMBDA m : JArr(SeqMap(LAMBDA x : JStr(DebugFmt(x)), m))),
          context |-> JOpt(party.context,
                           LAMBDA ctx : JArr(SeqMap(ContextJson, ctx)))])

\* mutant: the participants arm counts every non-external participant as internal
ParticipantsSummary_OwnCount(parties) ==
    IF IsNone(parties)
    THEN JObj([total |-> JNum(0), internal |-> JNum(0), external |-> JNum(0),
               speakers |-> JNum(0)])
    ELSE JObj([total |-> JNum(Len(Unwrap(parties))),
               internal |-> JNum(Len(Unwrap(parties)) - ExternalCount(Unwrap(parties))),
               external |-> JNum(ExternalCount(Unwrap(parties))),
               speakers |-> JNum(SpeakersCount(Unwrap(parties)))])

\* the summary of the participants arm
ParticipantsSummary(parties) ==
    IF IsNone(parties)
    THEN JObj([total |-> JNum(0), internal |-> JNum(0), external |-> JNum(0),
               speakers |-> JNum(0)])
    ELSE JObj([total |-> JNum(Len(Unwrap(parties))),
               internal |-> JNum(InternalCount(Unwrap(parties))),
               external |-> JNum(ExternalCount(Unwrap(parties))),
               speakers |-> JNum(SpeakersCount(Unwrap(parties)))])

\* the participant_summary of the call detail arm and of search_calls
ParticipantSummary(parties) ==
    IF IsNone(parties)
    THEN JObj([total |-> JNum(0), internal |-> JNum(0), external |-> JNum(0)])
    ELSE JObj([total |-> JNum(Len(Unwrap(parties))),
               internal |-> JNum(InternalCount(Unwrap(parties))),
               external |-> JNum(ExternalCount(Unwrap(parties)))])

\* mutant: an absent name or affiliation is left empty in the label
SpeakerLabel_NoDefault(party) ==
    UnwrapOr(party.name, "") \o " ("
        \o UnwrapOr(OptMap(party.affiliation, DebugFmt), "") \o ")"

SpeakerLabel(party) ==
    UnwrapOr(party.name, "Unknown") \o " ("
        \o UnwrapOr(OptMap(party.affiliation, DebugFmt), "Unknown") \o ")"

RECURSIVE SpeakerMapOf(_)
\* collect::<HashMap<_, _>>() of the (speaker_id, label) pairs: a later pair
\* replaces an earlier one with the same key
SpeakerMapOf(parties) ==
    IF parties = << >> THEN [x \in {} |-> JNull]
    ELSE LET front == SpeakerMapOf(SubSeq(parties, 1, Len(parties) - 1))
             last == parties[Len(parties)]
         IN  IF IsNone(last.speaker_id) THEN front
             ELSE [x \in DOMAIN front \cup {Unwrap(last.speaker_id)} |->
                      IF x = Unwrap(last.speaker_id)
                      THEN JStr(SpeakerLabel(last)) ELSE front[x]]

SpeakerMap(parties) ==
    IF IsNone(parties) THEN JObj([x \in {} |-> JNull])
    ELSE JObj(SpeakerMapOf(Unwrap(parties)))

MetaOf(call) == call.meta_data

CallNotFound(call_id, text) ==
    resource_not_found("call_not_found",
        Some(JObj([callId |-> JStr(call_id), message |-> JStr(text)])))

TranscriptNotFound(call_id, text) ==
    resource_not_found("transcript_not_found",
        Some(JObj([callId |-> JStr(call_id), message |-> JStr(text)])))

\* mutant: a lookup that matched no call is answered by an empty success
ParticipantsShape_EmptySuccess(call_id, calls_data) ==
    IF IsNone(calls_data.calls) \/ IsNone(First(Unwrap(calls_data.calls)))
    THEN Ok(JObj([callId |-> JStr(call_id),
                  participants |-> JArr(<< >>),
                  summary |-> ParticipantsSummary(None),
                  speakerMap |-> SpeakerMap(None)]))
    ELSE LET call == Unwrap(First(Unwrap(calls_data.calls))) IN
         Ok(JObj([callId |-> JStr(UnwrapOr(AndThen(MetaOf(call), LAMBDA m : m.id), call_id)),
                  participants |-> JArr(UnwrapOr(OptMap(call.parties,
                                        LAMBDA ps : SeqMap(ParticipantJson, ps)), << >>)),
                  summary |-> ParticipantsSummary(call.parties),
                  speakerMap |-> SpeakerMap(call.parties)]))

\* the participants arm after the await
ParticipantsShape(call_id, calls_data) ==
    IF IsNone(calls_data.calls)
    THEN Err(CallNotFound(call_id, "No call data returned from API"))
    ELSE IF IsNone(First(Unwrap(calls_data.calls)))
    THEN Err(CallNotFound(call_id, "Call not found in API response"))
    ELSE LET call == Unwrap(First(Unwrap(calls_data.calls))) IN
         Ok(JObj([callId |-> JStr(UnwrapOr(AndThen(MetaOf(call), LAMBDA m : m.id), call_id)),
                  participants |-> JArr(UnwrapOr(OptMap(call.parties,
                                        LAMBDA ps : SeqMap(ParticipantJson, ps)), << >>)),
                  summary |-> ParticipantsSummary(call.parties),
                  speakerMap |-> SpeakerMap(call.parties)]))

\* the call detail arm after the await
CallDetailShape(call_id, calls_data) ==
    IF IsNone(calls_data.calls)
    THEN Err(CallNotFound(call_id, "No call data returned from API"))
    ELSE IF IsNone(First(Unwrap(calls_data.calls)))
    THEN Err(CallNotFound(call_id, "Call not found in API response"))
    ELSE LET call == Unwrap(First(Unwrap(calls_data.calls)))
             meta == MetaOf(call)
         IN
         Ok(JObj([id |-> JOptStr(AndThen(meta, LAMBDA m : m.id)),
                  url |-> JOptStr(AndThen(meta, LAMBDA m : m.url)),
                  title |-> JOptStr(AndThen(meta, LAMBDA m : m.title)),
                  scheduled |-> JOptStr(AndThen(meta, LAMBDA m : m.scheduled)),
                  started |-> JOptStr(AndThen(meta, LAMBDA m : m.started)),
                  duration |-> JOptNum(AndThen(meta, LAMBDA m : m.duration)),
                  direction |-> JEnum(AndThen(meta, LAMBDA m : m.direction)),
                  primaryUserId |-> JOptStr(AndThen(meta, LAMBDA m : m.primary_user_id)),
                  system |-> JOptStr(AndThen(meta, LAMBDA m : m.system)),
                  scope |-> JEnum(AndThen(meta, LAMBDA m : m.scope)),
                  media |-> JEnum(AndThen(meta, LAMBDA m : m.media)),
                  language |-> JOptStr(AndThen(meta, LAMBDA m : m.language)),
                  workspaceId |-> JOptStr(AndThen(meta, LAMBDA m : m.workspace_id)),
                  sdrDisposition |-> JOptStr(AndThen(meta, LAMBDA m : m.sdr_disposition)),
                  clientUniqueId |-> JOptStr(AndThen(meta, LAMBDA m : m.client_unique_id)),
                  customData |-> JOptStr(AndThen(meta, LAMBDA m : m.custom_data)),
                  purpose |-> JOptStr(AndThen(meta, LAMBDA m : m.purpose)),
                  meetingUrl |-> JOptStr(AndThen(meta, LAMBDA m : m.meeting_url)),
                  isPrivate |-> JOptBool(AndThen(meta, LAMBDA m : m.is_private)),
                  calendarEventId |-> JOptStr(AndThen(meta, LAMBDA m : m.calendar_event_id)),
                  participantCount |-> JNum(UnwrapOr(OptMap(call.parties, Len), 0)),
                  participantSummary |-> ParticipantSummary(call.parties)]))

SentenceJson(speaker_id, sentence) ==
    JObj([speakerId |-> JOptStr(speaker_id),
          start |-> JOptNum(sentence.start),
          end |-> JOptNum(sentence.end),
          text |-> JOptStr(sentence.text)])

RECURSIVE Flatten_Reversed(_)
\* mutant: the monologues are joined last to first
Flatten_Reversed(ss) == IF ss = << >> THEN << >> ELSE Flatten_Reversed(Tail(ss)) \o Head(ss)

RECURSIVE Flatten(_)
Flatten(ss) == IF ss = << >> THEN << >> ELSE Head(ss) \o Flatten(Tail(ss))

\* the (sentence json, speaker id) pairs of one monologue
MonologuePairs(monologue) ==
    UnwrapOr(OptMap(monologue.sentences,
                    LAMBDA sentences :
                        SeqMap(LAMBDA x : <<SentenceJson(monologue.speaker_id, x),
                                            monologue.speaker_id>>,
                               sentences)),
             << >>)

\* flat_map over the monologues, before the unzip
SentencePairs(monologues) ==
    UnwrapOr(OptMap(monologues, LAMBDA m : Flatten(SeqMap(MonologuePairs, m))), << >>)

AllSentences(monologues) == SeqMap(LAMBDA pair : pair[1], SentencePairs(monologues))
SpeakerIds(monologues) == SeqMap(LAMBDA pair : pair[2], SentencePairs(monologues))

\* speaker_ids.into_iter().flatten().collect::<HashSet<_>>()
UniqueSpeakers(monologues) ==
    LET ids == SpeakerIds(monologues)
    IN  {Unwrap(ids[i]) : i \in {x \in 1..Len(ids) : IsSome(ids[x])}}

\* serde's rendering of models::Monologue
MonologueJson(monologue) ==
    JObj([speakerId |-> JOptStr(monologue.speaker_id),
          topic |-> JOptStr(monologue.topic),
          sentences |-> JOpt(monologue.sentences,
                LAMBDA sentences :
                    JArr(SeqMap(LAMBDA x : JObj([start |-> JOptNum(x.start),
                                                 end |-> JOptNum(x.end),
                                                 text |-> JOptStr(x.text)]),
                                sentences)))])

\* the transcript arm after the await
TranscriptShape(call_id, transcript_data) ==
    IF IsNone(transcript_data.call_transcripts)
    THEN Err(TranscriptNotFound(call_id, "No transcript data returned from API"))
    ELSE IF IsNone(First(Unwrap(transcript_data.call_transcripts)))
    THEN Err(TranscriptNotFound(call_id, "No transcript found for this call"))
    ELSE LET transcript == Unwrap(First(Unwrap(transcript_data.call_transcripts)))
             monologues == transcript.transcript
         IN
         Ok(JObj([callId |-> JStr(UnwrapOr(transcript.call_id, "")),
                  monologues |-> JOpt(monologues, LAMBDA m : JArr(SeqMap(MonologueJson, m))),
                  sentences |-> JArr(AllSentences(monologues)),
                  metadata |-> JObj(
                     [sentenceCount |-> JNum(Len(AllSentences(monologues))),
                      speakerCount |-> JNum(Cardinality(UniqueSpeakers(monologues))),
                      monologueCount |-> JNum(UnwrapOr(OptMap(monologues, Len), 0))])]))

RECURSIVE NatToStr(_)
\* format!("{}", n) of a usize
NatToStr(n) ==
    LET digit == <<"0", "1", "2", "3", "4", "5", "6", "7", "8", "9">>
    IN  IF n < 10 THEN digit[n + 1] ELSE NatToStr(n \div 10) \o digit[(n % 10) + 1]

\* mutant: a user of unknown status counts as active
UserJson_ActiveByDefault(user) ==
    JObj([id |-> JStr(UnwrapOr(user.id, "")),
          email |-> JStr(UnwrapOr(user.email_address, "")),
          firstName |-> JStr(UnwrapOr(user.first_name, "")),
          lastName |-> JStr(UnwrapOr(user.last_name, "")),
          active |-> JBool(UnwrapOr(user.active, TRUE))])

UserJson(user) ==
    JObj([id |-> JStr(UnwrapOr(user.id, "")),
          email |-> JStr(UnwrapOr(user.email_address, "")),
          firstName |-> JStr(UnwrapOr(user.first_name, "")),
          lastName |-> JStr(UnwrapOr(user.last_name, "")),
          active |-> JBool(UnwrapOr(user.active, FALSE))])

\* the gong://users arm after the await
UsersShape(users_data) ==
    IF IsSome(users_data.users)
    THEN LET formatted_users == SeqMap(UserJson, Unwrap(users_data.users)) IN
         Ok(JObj([users |-> JArr(formatted_users),
                  count |-> JNum(Len(formatted_users)),
                  message |-> JStr("Retrieved " \o NatToStr(Len(formatted_users)) \o " users")]))
    ELSE Ok(JObj([users |-> JArr(<< >>),
                  count |-> JNum(0),
                  message |-> JStr("No users found")]))

----------------------------------------------------------------------------
(* call_tool: search_calls *)

\* args.and_then(|a| a.get(key)): args is the Option of the argument bag
ArgGet(arguments, key) == AndThen(arguments, LAMBDA a : MapGet(a, key))

StrArg(arguments, key) == AndThen(ArgGet(arguments, key), AsStr)

\* the array arguments keep their string elements and drop the others
StrArrayArg(arguments, key) ==
    OptMap(AndThen(ArgGet(arguments, key), AsArray), LAMBDA arr : FilterMap(AsStr, arr))

\* as_u64 then `as usize`; every limit of the model is below 2^32, where the
\* cast keeps the value on every target
LimitArg(arguments) == AndThen(ArgGet(arguments, "limit"), AsU64)

\* mutant: a missing include_structure counts as true
IncludeStructureArg_DefaultTrue(arguments) ==
    UnwrapOr(AndThen(ArgGet(arguments, "include_structure"), AsBool), TRUE)

IncludeStructureArg(arguments) ==
    UnwrapOr(AndThen(ArgGet(arguments, "include_structure"), AsBool), FALSE)

\* the parameters call_tool extracts from the arguments
ParseArgs(arguments) ==
    [from_date_time |-> StrArg(arguments, "from_date_time"),
     to_date_time |-> StrArg(arguments, "to_date_time"),
     workspace_id |-> StrArg(arguments, "workspace_id"),
     call_ids |-> StrArrayArg(arguments, "call_ids"),
     primary_user_ids |-> StrArrayArg(arguments, "primary_user_ids"),
     cursor |-> StrArg(arguments, "cursor"),
     limit |-> LimitArg(arguments),
     include_structure |-> IncludeStructureArg(arguments)]

NotConfiguredTool ==
    invalid_request("not_configured",
        Some(JObj([message |-> JStr("Gong API is not configured. Please set GONG_BASE_URL, GONG_ACCESS_KEY, and GONG_ACCESS_KEY_SECRET environment variables."),
                   required_env_vars |-> JArr(<<JStr("GONG_BASE_URL"), JStr("GONG_ACCESS_KEY"),
                                                JStr("GONG_ACCESS_KEY_SECRET")>>)])))

UnknownTool(name) == invalid_params("unknown_tool", Some(JObj([tool |-> JStr(name)])))

\* mutant: the two ends of the date range are forwarded the other way round
call_tool_RangeSwapped(cfg, name, arguments) ==
    IF name = "search_calls"
    THEN IF ~_is_configured(cfg)
         THEN Return(Err(NotConfiguredTool), Frame("Search", "", NoArgs))
         ELSE LET a == ParseArgs(arguments) IN
              _fetch_calls_with_filter(cfg, Frame("Search", "", a),
                  a.to_date_time, a.from_date_time, a.workspace_id, a.call_ids,
                  a.primary_user_ids, a.cursor, a.include_structure)
    ELSE Return(Err(UnknownTool(name)), Frame("UnknownTool", "", NoArgs))

\* call_tool up to its first await or its return
call_tool(cfg, name, arguments) ==
    IF name = "search_calls"
    THEN IF ~_is_configured(cfg)
         THEN Return(Err(NotConfiguredTool), Frame("Search", "", NoArgs))
         ELSE LET a == ParseArgs(arguments) IN
              _fetch_calls_with_filter(cfg, Frame("Search", "", a),
                  a.from_date_time, a.to_date_time, a.workspace_id, a.call_ids,
                  a.primary_user_ids, a.cursor, a.include_structure)
    ELSE Return(Err(UnknownTool(name)), Frame("UnknownTool", "", NoArgs))

\* a participant of a search_calls call summary
SummaryParticipantJson(party) ==
    JObj([id |-> JOptStr(party.id),
          name |-> JOptStr(party.name),
          emailAddress |-> JOptStr(party.email_address),
          title |-> JOptStr(party.title),
          affiliation |-> JEnum(party.affiliation),
          speakerId |-> JOptStr(party.speaker_id),
          userId |-> JOptStr(party.user_id)])

\* mutant: the summary passes absent metadata through as null
CallSummaryJson_Nulls(call) ==
    LET meta == MetaOf(call) IN
    JObj([id |-> JOptStr(AndThen(meta, LAMBDA m : m.id)),
          title |-> JOptStr(AndThen(meta, LAMBDA m : m.title)),
          started |-> JOptStr(AndThen(meta, LAMBDA m : m.started)),
          duration |-> JOptNum(AndThen(meta, LAMBDA m : m.duration)),
          direction |-> JEnum(AndThen(meta, LAMBDA m : m.direction)),
          participants |-> JArr(UnwrapOr(OptMap(call.parties,
                                LAMBDA ps : SeqMap(SummaryParticipantJson, ps)), << >>)),
          participantSummary |-> ParticipantSummary(call.parties),
          url |-> JStr(UnwrapOr(AndThen(meta, LAMBDA m : m.url), ""))])

\* one call summary of search_calls
CallSummaryJson(call) ==
    LET meta == MetaOf(call) IN
    JObj([id |-> JStr(UnwrapOr(AndThen(meta, LAMBDA m : m.id), "")),
          title |-> JStr(UnwrapOr(AndThen(meta, LAMBDA m : m.title), "Untitled")),
          started |-> JStr(UnwrapOr(AndThen(meta, LAMBDA m : m.started), "")),
          duration |-> JNum(UnwrapOr(AndThen(meta, LAMBDA m : m.duration), 0)),
          direction |-> JStr(UnwrapOr(OptMap(AndThen(meta, LAMBDA m : m.direction), DebugFmt), "")),
          participants |-> JArr(UnwrapOr(OptMap(call.parties,
                                LAMBDA ps : SeqMap(SummaryParticipantJson, ps)), << >>)),
          participantSummary |-> ParticipantSummary(call.parties),
          url |-> JStr(UnwrapOr(AndThen(meta, LAMBDA m : m.url), ""))])

\* mutant: a page as long as the limit counts as truncated
Truncate_AtLimit(all_formatted_calls, limit) ==
    IF IsSome(limit)
    THEN IF Len(all_formatted_calls) >= Unwrap(limit)
         THEN <<Take(all_formatted_calls, Unwrap(limit)), TRUE>>
         ELSE <<all_formatted_calls, FALSE>>
    ELSE <<all_formatted_calls, FALSE>>

\* (formatted_calls, truncated): the limit applied to the formatted page
Truncate(all_formatted_calls, limit) ==
    IF IsSome(limit)
    THEN IF Len(all_formatted_calls) > Unwrap(limit)
         THEN <<Take(all_formatted_calls, Unwrap(limit)), TRUE>>
         ELSE <<all_formatted_calls, FALSE>>
    ELSE <<all_formatted_calls, FALSE>>

\* the echo of the request's filters
FiltersJson(a) ==
    JObj([from_date_time |-> JOptStr(a.from_date_time),
          to_date_time |-> JOptStr(a.to_date_time),
          workspace_id |-> JOptStr(a.workspace_id),
          call_ids |-> JOpt(a.call_ids, LAMBDA ids : JArr(SeqMap(JStr, ids))),
          primary_user_ids |-> JOpt(a.primary_user_ids, LAMBDA ids : JArr(SeqMap(JStr, ids))),
          limit |-> JOptNum(a.limit),
          include_structure |-> JBool(a.include_structure)])

UpstreamCursor(calls_data) == AndThen(calls_data.records, LAMBDA r : r.cursor)

\* search_calls after the await
SearchShape(a, calls_data) ==
    IF IsSome(calls_data.calls)
    THEN LET all_formatted_calls == SeqMap(CallSummaryJson, Unwrap(calls_data.calls))
             total_available == Len(all_formatted_calls)
             cut == Truncate(all_formatted_calls, a.limit)
             formatted_calls == cut[1]
             truncated == cut[2]
         IN  Ok(JObj([calls |-> JArr(formatted_calls),
                      count |-> JNum(Len(formatted_calls)),
                      totalAvailable |-> JNum(total_available),
                      truncated |-> JBool(truncated),
                      nextCursor |-> JOptStr(UpstreamCursor(calls_data)),
                      hasMore |-> JBool(IsSome(UpstreamCursor(calls_data))),
                      filters |-> FiltersJson(a)]))
    ELSE Ok(JObj([calls |-> JArr(<< >>),
                  count |-> JNum(0),
                  totalAvailable |-> JNum(0),
                  truncated |-> JBool(FALSE),
                  nextCursor |-> JNull,
                  hasMore |-> JBool(FALSE),
                  filters |-> FiltersJson(a)]))

----------------------------------------------------------------------------
(* The state machine *)

NoRequest == [op |-> "", uri |-> "", name |-> "", arguments |-> None]

Init ==
    /\ env \in EnvValues
    /\ config = New(env)
    /\ pc = "ready"
    /\ request = NoRequest
    /\ frame = NoFrame
    /\ upstream = << >>
    /\ reply = NoReply
    /\ response = NoResponse

\* a listing is answered without suspending
Listed(op, body) ==
    /\ pc = "ready"
    /\ request' = [NoRequest EXCEPT !.op = op]
    /\ frame' = Frame(op, "", NoArgs)
    /\ response' = Ok(body)
    /\ pc' = "done"
    /\ UNCHANGED <<env, config, upstream, reply>>

ListResources == Listed("list_resources", list_resources(config))
ListResourceTemplates == Listed("list_resource_templates", list_resource_templates(config))
ListTools == Listed("list_tools", list_tools(config))

\* a handler runs to its return or to its upstream call
Begin(req, outcome) ==
    /\ pc = "ready"
    /\ request' = req
    /\ frame' = outcome.frame
    /\ upstream' = outcome.upstream
    /\ response' = outcome.response
    /\ pc' = outcome.pc
    /\ UNCHANGED <<env, config, reply>>

ReadResource ==
    \E uri \in Uris :
        Begin([NoRequest EXCEPT !.op = "read_resource", !.uri = uri],
              read_resource(config, uri))

CallTool ==
    \E name \in ToolNames, arguments \in ArgBags :
        Begin([NoRequest EXCEPT !.op = "call_tool", !.name = name, !.arguments = arguments],
              call_tool(config, name, arguments))

\* mutant: a failed upstream call is issued a second time
Resume_Retry(route, answer, resp) ==
    /\ pc = "awaiting"
    /\ frame.route = route
    /\ reply' = answer
    /\ IF ~answer.ok /\ Len(upstream) < 2
       THEN /\ upstream' = Append(upstream, upstream[1])
            /\ pc' = "awaiting"
            /\ response' = response
       ELSE /\ upstream' = upstream
            /\ pc' = "done"
            /\ response' = resp
    /\ UNCHANGED <<env, config, request, frame>>

\* the upstream answers and the handler runs to its return
Resume(route, answer, resp) ==
    /\ pc = "awaiting"
    /\ frame.route = route
    /\ reply' = answer
    /\ response' = resp
    /\ pc' = "done"
    /\ UNCHANGED <<env, config, request, frame, upstream>>

UsersReply ==
    \E answer \in UsersAnswers :
        Resume("UserList", answer,
               IF answer.ok THEN UsersShape(Unwrap(answer.value))
               ELSE Err(ApiError(answer.error)))

ParticipantsReply ==
    \E answer \in LookupAnswers :
        Resume("Participants", answer,
               IF answer.ok THEN ParticipantsShape(frame.call_id, Unwrap(answer.value))
               ELSE Err(ApiError(answer.error)))

CallDetailReply ==
    \E answer \in LookupAnswers :
        Resume("CallDetail", answer,
               IF answer.ok THEN CallDetailShape(frame.call_id, Unwrap(answer.value))
               ELSE Err(ApiError(answer.error)))

TranscriptReply ==
    \E answer \in TranscriptAnswers :
        Resume("Transcript", answer,
               IF answer.ok THEN TranscriptShape(frame.call_id, Unwrap(answer.value))
               ELSE Err(TranscriptApiError(frame.call_id, answer.error)))

SearchReply ==
    \E answer \in SearchAnswers :
        Resume("Search", answer,
               IF answer.ok THEN SearchShape(frame.args, Unwrap(answer.value))
               ELSE Err(ApiError(answer.error)))

\* the runtime takes the response; the server keeps nothing of the request
Respond ==
    /\ pc = "done"
    /\ pc' = "ready"
    /\ request' = NoRequest
    /\ frame' = NoFrame
    /\ upstream' = << >>
    /\ reply' = NoReply
    /\ response' = NoResponse
    /\ UNCHANGED <<env, config>>

Next ==
    \/ ListResources
    \/ ListResourceTemplates
    \/ ListTools
    \/ ReadResource
    \/ CallTool
    \/ UsersReply
    \/ ParticipantsReply
    \/ CallDetailReply
    \/ TranscriptReply
    \/ SearchReply
    \/ Respond

Spec == Init /\ [][Next]_vars

----------------------------------------------------------------------------
(* Concurrent requests: the runtime polls one handler future per request.
   In this specification pc, request, frame, upstream, reply and response
   hold one value per session; env and config are the server's own. *)

Sessions == 1..MaxSessions

ReadRequest(uri) == [NoRequest EXCEPT !.op = "read_resource", !.uri = uri]
ToolRequest(name, arguments) ==
    [NoRequest EXCEPT !.op = "call_tool", !.name = name, !.arguments = arguments]

\* one request of every route and of every early return
ConcRequests ==
    {ReadRequest(uri) : uri \in {"gong://status", "gong://users", "gong://calls/x",
                                 "gong://calls/x/transcript",
                                 "gong://calls/x/participants",
                                 "gong://calls//transcript", ""}}
    \cup {ToolRequest("search_calls", Some(FullBag)), ToolRequest("get_call", None)}

\* a success and a failure of each upstream operation
ConcAnswers(route) ==
    CASE route = "UserList" ->
            {UpOk([users |-> Some(<<x>>)]) : x \in UserPool}
            \cup {UpErr("error in response: status code 500 Internal Server Error")}
      [] route \in {"Participants", "CallDetail"} ->
            {UpOk([calls |-> Some(<<UpCall(Some(MetaFull), Some(<<PartyInternal, PartyExternal>>))>>),
                   records |-> None]),
             UpOk([calls |-> Some(<<UpCall(Some(MetaIdOnly),
                                           Some(<<PartyUnknown, PartyBare, PartyInternal, PartyAnonymous>>))>>),
                   records |-> None]),
             UpOk([calls |-> Some(<< >>), records |-> None]),
             UpErr("error in response: status code 500 Internal Server Error")}
      [] route = "Transcript" ->
            {UpOk([call_transcripts |-> Some(<<x>>)]) :
                x \in {y \in TranscriptPool : IsSome(y.transcript) /\ Len(Unwrap(y.transcript)) = 1}}
            \cup {UpErr("error in response: status code 404 Not Found")}
      [] route = "Search" ->
            {UpOk([calls |-> Some(<<UpCall(Some(MetaFull), Some(<<PartyInternal, PartyExternal>>)),
                                    UpCall(None, None),
                                    UpCall(Some(MetaIdOnly), None)>>),
                   records |-> Some([cursor |-> Some("cur2")])]),
             UpErr("error in serde: call not found")}
      [] OTHER -> {}

\* the handler of a request up to its first await or its return
Handle(cfg, req) ==
    IF req.op = "read_resource" THEN read_resource(cfg, req.uri)
    ELSE call_tool(cfg, req.name, req.arguments)

\* the handler from its await to its return, given the upstream's answer
Continue(f, answer) ==
    CASE f.route = "UserList" ->
            IF answer.ok THEN UsersShape(Unwrap(answer.value))
            ELSE Err(ApiError(answer.error))
      [] f.route = "Participants" ->
            IF answer.ok THEN ParticipantsShape(f.call_id, Unwrap(answer.value))
            ELSE Err(ApiError(answer.error))
      [] f.route = "CallDetail" ->
            IF answer.ok THEN CallDetailShape(f.call_id, Unwrap(answer.value))
            ELSE Err(ApiError(answer.error))
      [] f.route = "Transcript" ->
            IF answer.ok THEN TranscriptShape(f.call_id, Unwrap(answer.value))
            ELSE Err(TranscriptApiError(f.call_id, answer.error))
      [] f.route = "Search" ->
            IF answer.ok THEN SearchShape(f.args, Unwrap(answer.value))
            ELSE Err(ApiError(answer.error))

ConcInit ==
    /\ env \in EnvValues
    /\ config = New(env)
    /\ pc = [s \in Sessions |-> "ready"]
    /\ request = [s \in Sessions |-> NoRequest]
    /\ frame = [s \in Sessions |-> NoFrame]
    /\ upstream = [s \in Sessions |-> << >>]
    /\ reply = [s \in Sessions |-> NoReply]
    /\ response = [s \in Sessions |-> NoResponse]

\* the handler of session s runs to its return or to its upstream call
ConcBegin(s) ==
    /\ pc[s] = "ready"
    /\ \E req \in ConcRequests :
            LET outcome == Handle(config, req) IN
            /\ request' = [request EXCEPT ![s] = req]
            /\ frame' = [frame EXCEPT ![s] = outcome.frame]
            /\ upstream' = [upstream EXCEPT ![s] = outcome.upstream]
            /\ response' = [response EXCEPT ![s] = outcome.response]
            /\ pc' = [pc EXCEPT ![s] = outcome.pc]
    /\ UNCHANGED <<env, config, reply>>

\* mutant: the answer is shaped with a call id the session has marked as its own
ConcResume_SessionMarked(s) ==
    /\ pc[s] = "awaiting"
    /\ \E answer \in ConcAnswers(frame[s].route) :
            /\ reply' = [reply EXCEPT ![s] = answer]
            /\ response' = [response EXCEPT ![s] =
                    Continue([frame[s] EXCEPT !.call_id = NatToStr(s) \o @], answer)]
    /\ pc' = [pc EXCEPT ![s] = "done"]
    /\ UNCHANGED <<env, config, request, frame, upstream>>

\* the upstream answers session s and its handler runs to its return
ConcResume(s) ==
    /\ pc[s] = "awaiting"
    /\ \E answer \in ConcAnswers(frame[s].route) :
            /\ reply' = [reply EXCEPT ![s] = answer]
            /\ response' = [response EXCEPT ![s] = Continue(frame[s], answer)]
    /\ pc' = [pc EXCEPT ![s] = "done"]
    /\ UNCHANGED <<env, config, request, frame, upstream>>

\* the slot of session s once its future is gone
Vacate(s) ==
    /\ pc' = [pc EXCEPT ![s] = "ready"]
    /\ request' = [request EXCEPT ![s] = NoRequest]
    /\ frame' = [frame EXCEPT ![s] = NoFrame]
    /\ upstream' = [upstream EXCEPT ![s] = << >>]
    /\ reply' = [reply EXCEPT ![s] = NoReply]
    /\ response' = [response EXCEPT ![s] = NoResponse]

\* mutant: a cancelled request takes the configuration with it
ConcCancel_DropsConfig(s) ==
    /\ pc[s] = "awaiting"
    /\ Vacate(s)
    /\ config' = None
    /\ UNCHANGED env

\* the request of session s is cancelled while its upstream call is in
\* flight: its future is dropped
ConcCancel(s) ==
    /\ pc[s] = "awaiting"
    /\ Vacate(s)
    /\ UNCHANGED <<env, config>>

\* the runtime takes the response of session s
ConcRespond(s) ==
    /\ pc[s] = "done"
    /\ Vacate(s)
    /\ UNCHANGED <<env, config>>

ConcNext ==
    \E s \in Sessions :
        \/ ConcBegin(s)
        \/ ConcResume(s)
        \/ ConcCancel(s)
        \/ ConcRespond(s)

SpecConc == ConcInit /\ [][ConcNext]_vars

----------------------------------------------------------------------------
(* Properties *)

\* all three environment values were supplied at construction
EnvComplete ==
    /\ IsSome(env.GONG_BASE_URL)
    /\ IsSome(env.GONG_ACCESS_KEY)
    /\ IsSome(env.GONG_ACCESS_KEY_SECRET)

Reading == pc # "ready" /\ request.op = "read_resource"
Calling == pc # "ready" /\ request.op = "call_tool"
Failed(code, kind) ==
    /\ pc = "done"
    /\ ~response.ok
    /\ response.error.code = code
    /\ response.error.message = kind
FailedAs(code) == pc = "done" /\ ~response.ok /\ response.error.code = code
NotConfigured == Failed("INVALID_REQUEST", "not_configured")

C2_Listings ==
    /\ (pc = "done" /\ request.op = "list_resources") =>
          /\ response.ok
          /\ SeqMap(LAMBDA r : r.uri, response.body.resources)
                = IF EnvComplete THEN <<"gong://status", "gong://users">>
                  ELSE <<"gong://status">>
    /\ (pc = "done" /\ request.op = "list_tools") =>
          /\ response.ok
          /\ SeqMap(LAMBDA t : t.name, response.body.tools)
                = IF EnvComplete THEN <<"search_calls">> ELSE << >>
    /\ (pc = "done" /\ request.op = "list_resource_templates" /\ ~EnvComplete) =>
          /\ response.ok
          /\ response.body.resource_templates = << >>

C2_Witness ==
    /\ pc = "done"
    /\ request.op = "list_resources"
    /\ ~EnvComplete
    /\ IsSome(env.GONG_ACCESS_KEY)
    /\ Len(response.body.resources) = 1

\* C3: reading gong://status succeeds in both states without an upstream
\* call, its configured field is the gate predicate and base_url is reported
\* only when configured.
C3_Status ==
    (Reading /\ request.uri = "gong://status") =>
        /\ pc = "done"
        /\ response.ok
        /\ upstream = << >>
        /\ response.body.o.configured = JBool(EnvComplete)
        /\ ("base_url" \in DOMAIN response.body.o) <=> EnvComplete
        /\ EnvComplete => response.body.o.base_url = JStr(Unwrap(env.GONG_BASE_URL))

C3_Witness ==
    /\ Reading
    /\ request.uri = "gong://status"
    /\ ~EnvComplete
    /\ IsSome(env.GONG_BASE_URL)
    /\ response.ok
    /\ "base_url" \notin DOMAIN response.body.o

\* C4: the configuration is present iff all three values were supplied, it is
\* then wholly populated, and no request changes it.
C4_Configuration ==
    /\ [](/\ IsSome(config) <=> EnvComplete
          /\ IsSome(config) =>
                /\ Unwrap(config).base_path = Unwrap(env.GONG_BASE_URL)
                /\ Unwrap(config).basic_auth
                      = Some(<<Unwrap(env.GONG_ACCESS_KEY),
                               Some(Unwrap(env.GONG_ACCESS_KEY_SECRET))>>))
    /\ [][config' = config /\ env' = env]_vars

C4_Witness ==
    /\ pc = "done"
    /\ request.op = "call_tool"
    /\ reply.ok
    /\ IsSome(config)

\* the routes, other than the remainders CallDetail and Unrecognized, whose
\* pattern the URI matches
PatternsMatched(uri) ==
    {r \in {"Status", "UserList", "Participants", "Transcript"} :
        \/ r = "Status" /\ StatusGuard(uri)
        \/ r = "UserList" /\ UsersGuard(uri)
        \/ r = "Participants" /\ ParticipantsGuard(uri)
        \/ r = "Transcript" /\ TranscriptGuard(uri)}

\* C5: every URI read is classified into one route of the six; it matches at
\* most one of the status, users, participants and transcript patterns and
\* takes that route, and otherwise CallDetail under gong://calls/ and
\* Unrecognized elsewhere.
C5_RouteTotalExclusive ==
    Reading =>
        /\ frame.route \in Routes
        /\ Cardinality(PatternsMatched(request.uri)) <= 1
        /\ PatternsMatched(request.uri) # {} => frame.route \in PatternsMatched(request.uri)
        /\ PatternsMatched(request.uri) = {} =>
              frame.route = IF CallDetailGuard(request.uri) THEN "CallDetail"
                            ELSE "Unrecognized"

C5_Witness ==
    /\ Reading
    /\ request.uri = "gong://calls/participants/transcript"
    /\ frame.route = "Transcript"

\* the text of uri between its first n and its last m characters
Between(uri, n, m) == SubSeq(uri, n + 1, Len(uri) - m)

\* uri is gong://calls/ + id + suffix for a non-empty id
HasShape(uri, suffix) ==
    /\ Len(uri) > Len("gong://calls/") + Len(suffix)
    /\ uri = "gong://calls/" \o Between(uri, Len("gong://calls/"), Len(suffix)) \o suffix

IdOfShape(uri, suffix) == Between(uri, Len("gong://calls/"), Len(suffix))

Awaits(api, call_ids) ==
    /\ Len(upstream) = 1
    /\ upstream[1].api = api
    /\ upstream[1].params.filter.call_ids = Some(call_ids)

\* C6: gong://calls/ + id + /transcript with a non-empty id takes the
\* Transcript route with exactly id (likewise /participants); any other URI
\* is refused with InvalidParams or takes another route, and no transcript
\* lookup is issued for an empty id.
C6_TranscriptIdExact ==
    /\ (Reading /\ HasShape(request.uri, "/transcript")) =>
          /\ frame.route = "Transcript"
          /\ EnvComplete =>
                /\ frame.call_id = IdOfShape(request.uri, "/transcript")
                /\ Awaits("getCallTranscripts", <<IdOfShape(request.uri, "/transcript")>>)
    /\ (Reading /\ HasShape(request.uri, "/participants")) =>
          /\ frame.route = "Participants"
          /\ EnvComplete =>
                /\ frame.call_id = IdOfShape(request.uri, "/participants")
                /\ Awaits("listCalls", <<IdOfShape(request.uri, "/participants")>>)
    /\ (Reading /\ EnvComplete /\ ~HasShape(request.uri, "/transcript")) =>
          \/ frame.route # "Transcript"
          \/ FailedAs("INVALID_PARAMS") /\ upstream = << >>
    /\ \A i \in 1..Len(upstream) :
          upstream[i].api = "getCallTranscripts"
              => /\ IsSome(upstream[i].params.filter.call_ids)
                 /\ \A j \in 1..Len(Unwrap(upstream[i].params.filter.call_ids)) :
                       Unwrap(upstream[i].params.filter.call_ids)[j] # ""

C6_Witness ==
    /\ Reading
    /\ pc = "awaiting"
    /\ request.uri = "gong://calls/abc-def-123/transcript"
    /\ frame.call_id = "abc-def-123"
    /\ Awaits("getCallTranscripts", <<"abc-def-123">>)

EmptyIdUris ==
    {"gong://calls//transcript", "gong://calls/transcript",
     "gong://calls//participants", "gong://calls/"}

\* C7 (as stated): on a configured server each of gong://calls//transcript,
\* gong://calls/transcript, gong://calls//participants and gong://calls/
\* fails with InvalidParams missing_call_id before any upstream request.
C7_EmptyIdIsMissingCallId ==
    (Reading /\ EnvComplete /\ request.uri \in EmptyIdUris)
        => (Failed("INVALID_PARAMS", "missing_call_id") /\ upstream = << >>)

\* C7 (amended): on a configured server gong://calls//transcript,
\* gong://calls//participants and gong://calls/, whose extracted id is empty,
\* fail with InvalidParams missing_call_id; gong://calls/transcript and
\* gong://calls/participants, from which no id is extracted, fail with
\* InvalidParams invalid_uri; all before any upstream request.
C7_EmptyIdRefused ==
    /\ (Reading /\ EnvComplete
            /\ request.uri \in {"gong://calls//transcript", "gong://calls//participants",
                                "gong://calls/"})
          => (Failed("INVALID_PARAMS", "missing_call_id") /\ upstream = << >>)
    /\ (Reading /\ EnvComplete
            /\ request.uri \in {"gong://calls/transcript", "gong://calls/participants"})
          => (Failed("INVALID_PARAMS", "invalid_uri") /\ upstream = << >>)

C7_Witness ==
    /\ Reading
    /\ EnvComplete
    /\ request.uri = "gong://calls/transcript"
    /\ Failed("INVALID_PARAMS", "invalid_uri")

\* uri is gong://calls/ + id where id ends with word and the character just
\* before word is not a slash
EndsWithWordNoSlash(uri, word) ==
    /\ StartsWith(uri, "gong://calls/")
    /\ Len(uri) > Len("gong://calls/") + Len(word)
    /\ SubSeq(uri, Len(uri) - Len(word) + 1, Len(uri)) = word
    /\ SubSeq(uri, Len(uri) - Len(word), Len(uri) - Len(word)) # "/"

\* the prefix and the suffix match uri only by sharing its slash
Overlapping(uri, suffix) ==
    /\ StartsWith(uri, "gong://calls/")
    /\ EndsWith(uri, suffix)
    /\ Len(uri) < Len("gong://calls/") + Len(suffix)

\* C8: an id that ends with participants or transcript with no slash just
\* before that text takes the CallDetail route with the whole id; a URI that
\* matches the prefix and a suffix only on overlapping characters yields no
\* id and no upstream call.
C8_SegmentBoundaries ==
    /\ (Reading /\ \E word \in {"participants", "transcript"} :
                        EndsWithWordNoSlash(request.uri, word)) =>
          /\ frame.route = "CallDetail"
          /\ EnvComplete =>
                /\ frame.call_id = Between(request.uri, Len("gong://calls/"), 0)
                /\ Awaits("listCalls", <<Between(request.uri, Len("gong://calls/"), 0)>>)
    /\ (Reading /\ \E suffix \in {"/participants", "/transcript"} :
                        Overlapping(request.uri, suffix)) =>
          /\ pc = "done"
          /\ ~response.ok
          /\ upstream = << >>

C8_Witness ==
    /\ Reading
    /\ EnvComplete
    /\ request.uri = "gong://calls/xparticipants"
    /\ frame.route = "CallDetail"
    /\ Awaits("listCalls", <<"xparticipants">>)

\* the limit of the request when it is a non-negative integer
RequestLimit ==
    IF /\ IsSome(request.arguments)
       /\ "limit" \in DOMAIN Unwrap(request.arguments)
       /\ Unwrap(request.arguments).limit.k = "number"
       /\ Unwrap(request.arguments).limit.n >= 0
    THEN Some(Unwrap(request.arguments).limit.n)
    ELSE None

\* the calls of the upstream page answered to search_calls
UpstreamPage == UnwrapOr(Unwrap(reply.value).calls, << >>)

Searched == pc = "done" /\ frame.route = "Search" /\ reply.ok

Min(a, b) == IF a < b THEN a ELSE b

\* C9: in a search_calls response totalAvailable is the page size N, count is
\* min(N, L) under a limit L and N without one, truncated holds iff L is
\* present and L < N, and count is the length of the calls array.
C9_Truncation ==
    Searched =>
        LET N == Len(UpstreamPage)
            body == response.body.o
        IN  /\ response.ok
            /\ body.totalAvailable = JNum(N)
            /\ body.count = JNum(IF IsSome(RequestLimit)
                                 THEN Min(N, Unwrap(RequestLimit)) ELSE N)
            /\ body.truncated = JBool(IsSome(RequestLimit) /\ Unwrap(RequestLimit) < N)
            /\ body.calls.k = "array"
            /\ body.count = JNum(Len(body.calls.a))

C9_Witness ==
    /\ Searched
    /\ RequestLimit = Some(2)
    /\ Len(UpstreamPage) = 3
    /\ response.body.o.count = JNum(2)
    /\ response.body.o.truncated = JBool(TRUE)

\* C10: the calls returned by search_calls are the summaries of the first
\* records of the upstream page, in upstream order: the first L when the
\* response is truncated and the whole page otherwise.
C10_PrefixInOrder ==
    Searched =>
        LET returned == response.body.o.calls.a
            kept == IF response.body.o.truncated.b
                    THEN Unwrap(RequestLimit) ELSE Len(UpstreamPage)
        IN  /\ Len(returned) = kept
            /\ kept <= Len(UpstreamPage)
            /\ \A i \in 1..kept : returned[i] = CallSummaryJson(UpstreamPage[i])

C10_Witness ==
    /\ Searched
    /\ RequestLimit = Some(1)
    /\ Len(UpstreamPage) = 3
    /\ UpstreamPage[1] # UpstreamPage[3]
    /\ response.body.o.truncated.b
    /\ response.body.o.calls.a = <<CallSummaryJson(UpstreamPage[1])>>

----------------------------------------------------------------------------
(* search_calls: continuation *)

\* the answer of the upstream to the request in hand
Answer == Unwrap(reply.value)

\* C11: in every search_calls response hasMore holds iff the upstream page
\* reports a continuation cursor and nextCursor is that cursor unchanged, for
\* every upstream page, a page with a cursor and no calls included.
C11_CursorPassThrough ==
    Searched =>
        /\ response.ok
        /\ response.body.o.hasMore = JBool(IsSome(UpstreamCursor(Answer)))
        /\ response.body.o.nextCursor = JOptStr(UpstreamCursor(Answer))

----------------------------------------------------------------------------
(* Zero matching records *)

Replied(route) == pc = "done" /\ frame.route = route /\ reply.ok

\* the records of the upstream answer a lookup reads: the calls of listCalls,
\* the transcripts of getCallTranscripts; an absent list holds none
MatchedCalls == UnwrapOr(Answer.calls, << >>)
MatchedTranscripts == UnwrapOr(Answer.call_transcripts, << >>)

\* C12: a single-call lookup (CallDetail, Participants, Transcript) whose
\* upstream answer holds zero matching records, the list absent or empty,
\* fails with a NotFound error; search_calls answered with zero calls
\* succeeds with an empty calls sequence, count 0 and totalAvailable 0.
C12_ZeroRecords ==
    /\ (Replied("CallDetail") /\ MatchedCalls = << >>)
            => Failed("RESOURCE_NOT_FOUND", "call_not_found")
    /\ (Replied("Participants") /\ MatchedCalls = << >>)
            => Failed("RESOURCE_NOT_FOUND", "call_not_found")
    /\ (Replied("Transcript") /\ MatchedTranscripts = << >>)
            => Failed("RESOURCE_NOT_FOUND", "transcript_not_found")
    /\ (Replied("Search") /\ MatchedCalls = << >>)
            => /\ response.ok
               /\ response.body.o.calls = JArr(<< >>)
               /\ response.body.o.count = JNum(0)
               /\ response.body.o.totalAvailable = JNum(0)

C12_Witness ==
    /\ Replied("Participants")
    /\ Answer.calls = Some(<< >>)
    /\ Failed("RESOURCE_NOT_FOUND", "call_not_found")
    /\ response.error.data = Some(JObj([callId |-> JStr(frame.call_id),
                                        message |-> JStr("Call not found in API response")]))

----------------------------------------------------------------------------
(* search_calls: the arguments *)

StringKeys == {"from_date_time", "to_date_time", "workspace_id", "cursor"}
ArrayKeys == {"call_ids", "primary_user_ids"}

\* the type the input schema of search_calls gives each key
WellTyped(key, v) ==
    CASE key \in StringKeys -> v.k = "string"
      [] key \in ArrayKeys ->
            v.k = "array" /\ \A i \in 1..Len(v.a) : v.a[i].k = "string"
      [] key = "limit" -> v.k = "number" /\ v.n >= 0
      [] key = "include_structure" -> v.k = "bool"
      [] OTHER -> TRUE

\* the keys of the bag whose value is of another type than the schema's (a
\* null is left aside: it stands for no value)
IllTypedKeys(bag) ==
    {key \in DOMAIN bag : bag[key].k # "null" /\ ~WellTyped(key, bag[key])}

Searching == Calling /\ request.name = "search_calls" /\ EnvComplete

Supplied(key) ==
    IsSome(request.arguments) /\ key \in DOMAIN Unwrap(request.arguments)

SuppliedValue(key) == Unwrap(request.arguments)[key]

\* C13: a search_calls argument that fails its type check is reported as an
\* InvalidParams error before any upstream request is issued, and is never
\* replaced by the default.
C13_IllTypedRejected ==
    (/\ Searching
     /\ IsSome(request.arguments)
     /\ IllTypedKeys(Unwrap(request.arguments)) # {})
        => (pc = "done" /\ FailedAs("INVALID_PARAMS") /\ upstream = << >>)

\* the content selector of the listCalls request in flight
ContentRequested == Unwrap(Unwrap(upstream[1].params.content_selector).exposed_fields).content

\* C14: a key of search_calls that is missing, or the whole bag absent, gives
\* its parameter the default whatever the other keys hold: string and array
\* fields absent, limit absent (the page is not cut), include_structure
\* false; a non-negative integer limit and a boolean include_structure are
\* used as given.
C14_Defaults ==
    Searching =>
        /\ \A key \in {"from_date_time", "to_date_time", "workspace_id",
                       "call_ids", "primary_user_ids"} :
                ~Supplied(key) =>
                    /\ frame.args[key] = None
                    /\ upstream[1].params.filter[key] = None
        /\ ~Supplied("cursor") =>
                (frame.args.cursor = None /\ upstream[1].params.cursor = None)
        /\ ~Supplied("limit") =>
                /\ frame.args.limit = None
                /\ Searched =>
                        /\ response.body.o.truncated = JBool(FALSE)
                        /\ Len(response.body.o.calls.a) = Len(UpstreamPage)
        /\ ~Supplied("include_structure") =>
                (frame.args.include_structure = FALSE /\ ContentRequested = None)
        /\ (Supplied("limit") /\ WellTyped("limit", SuppliedValue("limit"))) =>
                frame.args.limit = Some(SuppliedValue("limit").n)
        /\ (Supplied("include_structure")
                /\ WellTyped("include_structure", SuppliedValue("include_structure"))) =>
                /\ frame.args.include_structure = SuppliedValue("include_structure").b
                /\ IsSome(ContentRequested) = SuppliedValue("include_structure").b

C14_Witness ==
    /\ Searched
    /\ request.arguments = Some(BagWithout(FullBag, "limit"))
    /\ frame.args.limit = None
    /\ frame.args.include_structure
    /\ frame.args.call_ids = Some(<<"call1", "call2">>)
    /\ Len(UpstreamPage) = 3
    /\ response.body.o.count = JNum(3)

----------------------------------------------------------------------------
(* Participant summaries *)

\* the participants of a list with the given affiliation
WithAffiliation(ps, tag) ==
    {i \in 1..Len(ps) : ps[i].affiliation = Some(Enum(tag))}

\* a summary object against the parties of the upstream call it was made of
SummaryHolds(summary, parties) ==
    LET ps == UnwrapOr(parties, << >>)
        total == summary.o.total.n
        internal == summary.o.internal.n
        external == summary.o.external.n
    IN  /\ summary.o.total.k = "number"
        /\ summary.o.internal.k = "number"
        /\ summary.o.external.k = "number"
        /\ total = Len(ps)
        /\ internal = Cardinality(WithAffiliation(ps, "Internal"))
        /\ external = Cardinality(WithAffiliation(ps, "External"))
        /\ internal + external <= total
        /\ (internal + external = total)
                <=> \A i \in 1..Len(ps) :
                        i \in WithAffiliation(ps, "Internal") \cup WithAffiliation(ps, "External")
        /\ IsNone(parties) => (total = 0 /\ internal = 0 /\ external = 0)

\* C15: every participant summary (participants, call detail, each call of
\* search_calls) has total = the number of participants, internal and
\* external = the participants whose affiliation is exactly Internal and
\* exactly External, internal + external <= total with equality exactly when
\* every participant is Internal or External, and all three 0 for a call
\* with no participant list.
C15_SummaryCounts ==
    /\ (Replied("Participants") /\ response.ok)
            => SummaryHolds(response.body.o.summary, MatchedCalls[1].parties)
    /\ (Replied("CallDetail") /\ response.ok)
            => SummaryHolds(response.body.o.participantSummary, MatchedCalls[1].parties)
    /\ Searched
            => \A i \in 1..Len(response.body.o.calls.a) :
                    SummaryHolds(response.body.o.calls.a[i].o.participantSummary,
                                 UpstreamPage[i].parties)

C15_Witness ==
    /\ Replied("Participants")
    /\ response.ok
    /\ MatchedCalls[1].parties = Some(<<PartyUnknown, PartyBare, PartyInternal, PartyAnonymous>>)
    /\ response.body.o.summary.o.total = JNum(4)
    /\ response.body.o.summary.o.internal = JNum(1)
    /\ response.body.o.summary.o.external = JNum(0)

----------------------------------------------------------------------------
(* Transcript shaping *)

\* the monologues of the transcript the upstream answered with
AnsweredMonologues == UnwrapOr(MatchedTranscripts[1].transcript, << >>)

SentencesOf(monologue) == UnwrapOr(monologue.sentences, << >>)

RECURSIVE SentencesBefore(_, _)
\* the number of sentences of the monologues before the i-th
SentencesBefore(ms, i) ==
    IF i <= 1 THEN 0
    ELSE SentencesBefore(ms, i - 1) + Len(SentencesOf(ms[i - 1]))

Transcribed == Replied("Transcript") /\ response.ok

\* C16: the sentences of a transcript response are the sentences of the
\* monologues in monologue order and, within a monologue, in sentence order,
\* each tagged with the speaker id of its monologue; sentenceCount is the
\* length of that sequence, the sum of the monologues' sentence counts, and
\* monologueCount the number of monologues (0 without any).
C16_Flattening ==
    Transcribed =>
        LET ms == AnsweredMonologues
            out == response.body.o.sentences.a
            metadata == response.body.o.metadata.o
        IN  /\ response.body.o.sentences.k = "array"
            /\ Len(out) = SentencesBefore(ms, Len(ms) + 1)
            /\ \A i \in 1..Len(ms) : \A j \in 1..Len(SentencesOf(ms[i])) :
                    LET got == out[SentencesBefore(ms, i) + j].o
                        sentence == SentencesOf(ms[i])[j]
                    IN  /\ got.speakerId = JOptStr(ms[i].speaker_id)
                        /\ got.text = JOptStr(sentence.text)
                        /\ got.start = JOptNum(sentence.start)
                        /\ got.end = JOptNum(sentence.end)
            /\ metadata.sentenceCount = JNum(Len(out))
            /\ metadata.monologueCount = JNum(Len(ms))

C16_Witness ==
    /\ Transcribed
    /\ Len(AnsweredMonologues) = 2
    /\ AnsweredMonologues[1].speaker_id = Some("s1")
    /\ AnsweredMonologues[2].speaker_id = Some("s2")
    /\ SeqMap(LAMBDA x : x.o.text, response.body.o.sentences.a)
            = <<JStr("Hi"), JStr("Welcome"), JStr("Thanks")>>
    /\ SeqMap(LAMBDA x : x.o.speakerId, response.body.o.sentences.a)
            = <<JStr("s1"), JStr("s1"), JStr("s2")>>
    /\ response.body.o.metadata.o.sentenceCount = JNum(3)
    /\ response.body.o.metadata.o.monologueCount = JNum(2)

\* the distinct non-null speaker ids of the monologues
MonologueSpeakers(ms) ==
    {Unwrap(ms[i].speaker_id) : i \in {x \in 1..Len(ms) : IsSome(ms[x].speaker_id)}}

\* C17: speakerCount of a transcript response is the number of distinct
\* non-null speaker ids over the monologues, counted per monologue: a
\* monologue with a speaker id and no sentences contributes its speaker.
C17_SpeakersPerMonologue ==
    Transcribed =>
        response.body.o.metadata.o.speakerCount
            = JNum(Cardinality(MonologueSpeakers(AnsweredMonologues)))

----------------------------------------------------------------------------
(* Upstream failures *)

\* the upstream call of the request in hand failed
UpstreamFailed == pc = "done" /\ reply # NoReply /\ ~reply.ok

\* C18: a request issues at most one upstream call, and when that call fails
\* the request ends with one error that carries the upstream error message,
\* with no second upstream attempt.
C18_NoRetry ==
    /\ Len(upstream) <= 1
    /\ pc = "awaiting" => Len(upstream) = 1
    /\ UpstreamFailed =>
            /\ Len(upstream) = 1
            /\ ~response.ok
            /\ IsSome(response.error.data)
            /\ Unwrap(response.error.data).k = "object"
            /\ "error" \in DOMAIN Unwrap(response.error.data).o
            /\ Unwrap(response.error.data).o.error = JStr(reply.error)

C18_Witness ==
    /\ UpstreamFailed
    /\ frame.route = "CallDetail"
    /\ reply = UpErr("error in response: status code 500 Internal Server Error")
    /\ Len(upstream) = 1
    /\ Failed("INTERNAL_ERROR", "api_error")

----------------------------------------------------------------------------
(* Error details *)

Errored == pc = "done" /\ ~response.ok

\* the detail object names the URI, the call id or the tool of the request
Echoes(detail) ==
    \/ "uri" \in DOMAIN detail /\ detail.uri = JStr(request.uri)
    \/ "callId" \in DOMAIN detail /\ detail.callId = JStr(frame.call_id)
    \/ "tool" \in DOMAIN detail /\ detail.tool = JStr(request.name)

\* C19: every error of read_resource and call_tool carries a kind tag and a
\* non-empty detail object that echoes the offending identifier, URI or
\* argument.
C19_ErrorDetail ==
    Errored =>
        /\ response.error.message # ""
        /\ IsSome(response.error.data)
        /\ Unwrap(response.error.data).k = "object"
        /\ DOMAIN Unwrap(response.error.data).o # {}
        /\ Echoes(Unwrap(response.error.data).o)

----------------------------------------------------------------------------
(* Independence of requests *)

\* the response of a request handled alone by the server as constructed,
\* given the answer of the upstream (if the request gets to ask)
Alone(req, answer) ==
    LET outcome == Handle(New(env), req)
    IN  IF outcome.pc = "done" THEN outcome.response
        ELSE Continue(outcome.frame, answer)

\* the upstream call a request handled alone issues, if any
AloneCall(req) == Handle(New(env), req).upstream

\* C20: whatever the other sessions do and however their suspension points
\* interleave, the upstream call and the response of a request are those of
\* the same request handled alone with the same upstream answer; no step of
\* a request (begun, answered, failed, cancelled in flight, responded)
\* changes the server's state.
C20_Independence ==
    /\ [](\A s \in Sessions :
            /\ pc[s] # "ready" => upstream[s] = AloneCall(request[s])
            /\ pc[s] = "done" => response[s] = Alone(request[s], reply[s]))
    /\ [](config = New(env))
    /\ [][config' = config /\ env' = env]_vars

C20_Witness ==
    /\ EnvComplete
    /\ pc[1] = "done"
    /\ request[1] = ReadRequest("gong://calls/x")
    /\ ~reply[1].ok
    /\ response[1] = Err(ApiError(reply[1].error))
    /\ pc[2] = "done"
    /\ request[2] = ReadRequest("gong://calls/x")
    /\ reply[2].ok
    /\ response[2].ok

----------------------------------------------------------------------------
(* Idempotence of reads *)

\* sessions s and t read the same URI and got the same upstream answer
SameRead(s, t) ==
    /\ pc[s] = "done"
    /\ pc[t] = "done"
    /\ request[s].op = "read_resource"
    /\ request[t] = request[s]
    /\ reply[t] = reply[s]

----------------------------------------------------------------------------
(* The upstream requests *)

\* a listCalls request is in flight or was answered
ListingCalls == upstream # << >> /\ upstream[1].api = "listCalls"

ExposedFields == Unwrap(Unwrap(upstream[1].params.content_selector).exposed_fields)

\* the optional content fields other than the structure
OtherContentFields ==
    {"topics", "trackers", "tracker_occurrences", "points_of_interest", "brief",
     "outline", "highlights", "call_outcome", "key_points"}

\* C22: every listCalls request (search_calls, CallDetail, Participants)
\* asks for the parties; it asks for the structure iff include_structure is
\* true, and never for call outcome, highlights, trackers or another
\* optional content field.
C22_ContentSelector ==
    ListingCalls =>
        /\ IsSome(upstream[1].params.content_selector)
        /\ IsSome(Unwrap(upstream[1].params.content_selector).exposed_fields)
        /\ ExposedFields.parties = Some(TRUE)
        /\ IsSome(ExposedFields.content) <=> frame.args.include_structure
        /\ frame.route \in {"CallDetail", "Participants"} => IsNone(ExposedFields.content)
        /\ IsSome(ExposedFields.content) =>
                /\ Unwrap(ExposedFields.content).structure = Some(TRUE)
                /\ \A field \in OtherContentFields :
                        Unwrap(ExposedFields.content)[field] = None
        /\ ExposedFields.collaboration = None
        /\ ExposedFields.interaction = None
        /\ ExposedFields.media = None
        /\ Unwrap(upstream[1].params.content_selector).context = None
        /\ Unwrap(upstream[1].params.content_selector).context_timing = None

C22_Witness ==
    /\ ListingCalls
    /\ pc = "awaiting"
    /\ frame.route = "Search"
    /\ request.arguments = Some(FullBag)
    /\ frame.args.include_structure
    /\ IsSome(ExposedFields.content)
    /\ Unwrap(ExposedFields.content).structure = Some(TRUE)
    /\ Unwrap(ExposedFields.content).call_outcome = None

\* the request in hand is a read that got as far as its upstream call
ReadUpstream(route) == Reading /\ frame.route = route /\ upstream # << >>

\* the URI of the request is the calls prefix, the id and the suffix
AddressedBy(id, suffix) == request.uri = CallsPrefix \o id \o suffix

\* C23: CallDetail and Participants issue listCalls with callIds = [id] for
\* the id of the URI, no date range, workspace, primary users or cursor and
\* no structure, never another operation; Transcript issues
\* getCallTranscripts with callIds = [id], no date filter and no cursor.
C23_SingleCallRequests ==
    /\ \A route \in {"CallDetail", "Participants"} :
            ReadUpstream(route) =>
                /\ Len(upstream) = 1
                /\ upstream[1].api = "listCalls"
                /\ upstream[1].params.cursor = None
                /\ upstream[1].params.filter.from_date_time = None
                /\ upstream[1].params.filter.to_date_time = None
                /\ upstream[1].params.filter.workspace_id = None
                /\ upstream[1].params.filter.primary_user_ids = None
                /\ IsNone(ExposedFields.content)
                /\ \E id \in {frame.call_id} :
                        /\ id # ""
                        /\ upstream[1].params.filter.call_ids = Some(<<id>>)
                        /\ AddressedBy(id, IF route = "Participants"
                                           THEN ParticipantsSuffix ELSE "")
    /\ ReadUpstream("Transcript") =>
            /\ Len(upstream) = 1
            /\ upstream[1].api = "getCallTranscripts"
            /\ upstream[1].params.cursor = None
            /\ upstream[1].params.filter.from_date_time = None
            /\ upstream[1].params.filter.to_date_time = None
            /\ upstream[1].params.filter.workspace_id = None
            /\ \E id \in {frame.call_id} :
                    /\ id # ""
                    /\ upstream[1].params.filter.call_ids = Some(<<id>>)
                    /\ AddressedBy(id, TranscriptSuffix)

C23_Witness ==
    /\ ReadUpstream("Transcript")
    /\ request.uri = "gong://calls/123456/transcript"
    /\ upstream = <<ApiCall("getCallTranscripts",
                           [cursor |-> None,
                            filter |-> [from_date_time |-> None, to_date_time |-> None,
                                        workspace_id |-> None,
                                        call_ids |-> Some(<<"123456">>)]])>>

----------------------------------------------------------------------------
(* search_calls: forwarding and echo of the filters *)

FilterKeys ==
    {"from_date_time", "to_date_time", "workspace_id", "call_ids", "primary_user_ids"}

\* the value a well-typed argument parses to
ParsedValue(key) ==
    IF key \in ArrayKeys
    THEN Some(SeqMap(LAMBDA x : x.s, SuppliedValue(key).a))
    ELSE Some(SuppliedValue(key).s)

\* the listCalls request carries the parsed filters and cursor as they are
Forwarded ==
    /\ upstream[1].api = "listCalls"
    /\ \A key \in FilterKeys : upstream[1].params.filter[key] = frame.args[key]
    /\ upstream[1].params.cursor = frame.args.cursor
    /\ \A key \in FilterKeys \cup {"cursor"} :
            (Supplied(key) /\ SuppliedValue(key).k # "null"
                /\ WellTyped(key, SuppliedValue(key)))
                => frame.args[key] = ParsedValue(key)

\* the JSON of a parsed filter
EchoOf(key) ==
    IF key \in ArrayKeys
    THEN JOpt(frame.args[key], LAMBDA ids : JArr(SeqMap(JStr, ids)))
    ELSE JOptStr(frame.args[key])

Echoed(key) ==
    /\ key \in DOMAIN response.body.o.filters.o
    /\ response.body.o.filters.o[key] = EchoOf(key)

\* C24 (as stated): search_calls forwards the parsed from_date_time,
\* to_date_time, workspace_id, call_ids, primary_user_ids and cursor to
\* listCalls unchanged, also for a range that ends before it starts, and
\* echoes the same six values in the filters object of the response.
C24_ForwardedAndAllEchoed ==
    (Searching /\ upstream # << >>) =>
        /\ Forwarded
        /\ Searched => \A key \in FilterKeys \cup {"cursor"} : Echoed(key)

\* C24 (amended): the six parsed values are forwarded unchanged, also for a
\* range that ends before it starts; the filters object echoes the five
\* filters, with the limit and include_structure, and holds no cursor.
C24_ForwardedAndFiltersEchoed ==
    (Searching /\ upstream # << >>) =>
        /\ Forwarded
        /\ Searched =>
                /\ \A key \in FilterKeys : Echoed(key)
                /\ DOMAIN response.body.o.filters.o
                        = FilterKeys \cup {"limit", "include_structure"}
                /\ response.body.o.filters.o.limit = JOptNum(frame.args.limit)
                /\ response.body.o.filters.o.include_structure
                        = JBool(frame.args.include_structure)

C24_Witness ==
    /\ Searched
    /\ request.arguments
            = Some(BagWith(FullBag, "from_date_time", JStr("2024-03-01T00:00:00Z")))
    /\ upstream[1].params.filter.from_date_time = Some("2024-03-01T00:00:00Z")
    /\ upstream[1].params.filter.to_date_time = Some("2024-01-31T23:59:59Z")
    /\ upstream[1].params.cursor = Some("cur1")
    /\ response.ok
    /\ response.body.o.filters.o.from_date_time = JStr("2024-03-01T00:00:00Z")
    /\ response.body.o.filters.o.to_date_time = JStr("2024-01-31T23:59:59Z")
    /\ "cursor" \notin DOMAIN response.body.o.filters.o

----------------------------------------------------------------------------
(* Defaults of the two call shapes *)

\* a metadata field of an upstream call: absent when the metadata is
MetaField(call, field) ==
    IF IsNone(call.meta_data) THEN None ELSE Unwrap(call.meta_data)[field]

\* the defaults of a call summary, by key
SummaryDefaults ==
    [id |-> JStr(""), title |-> JStr("Untitled"), started |-> JStr(""),
     duration |-> JNum(0), direction |-> JStr(""), url |-> JStr("")]

\* the metadata field behind each key of the call detail
DetailFields ==
    [id |-> "id", url |-> "url", title |-> "title", scheduled |-> "scheduled",
     started |-> "started", duration |-> "duration", direction |-> "direction",
     primaryUserId |-> "primary_user_id", system |-> "system", scope |-> "scope",
     media |-> "media", language |-> "language", workspaceId |-> "workspace_id",
     sdrDisposition |-> "sdr_disposition", clientUniqueId |-> "client_unique_id",
     customData |-> "custom_data", purpose |-> "purpose", meetingUrl |-> "meeting_url",
     isPrivate |-> "is_private", calendarEventId |-> "calendar_event_id"]

\* C25: in each call summary of search_calls an absent metadata field is
\* replaced by its default (id "", title "Untitled", started "", duration 0,
\* direction "", url "") and is never null or a missing key; in the call
\* detail an absent metadata field is null and never a default.
C25_DefaultAsymmetry ==
    /\ Searched =>
            \A i \in 1..Len(response.body.o.calls.a) :
                LET summary == response.body.o.calls.a[i].o IN
                \A key \in DOMAIN SummaryDefaults :
                    /\ key \in DOMAIN summary
                    /\ summary[key].k # "null"
                    /\ IsNone(MetaField(UpstreamPage[i], key))
                            => summary[key] = SummaryDefaults[key]
    /\ (Replied("CallDetail") /\ response.ok) =>
            \A key \in DOMAIN DetailFields :
                /\ key \in DOMAIN response.body.o
                /\ IsNone(MetaField(MatchedCalls[1], DetailFields[key]))
                        <=> response.body.o[key] = JNull

C25_Witness ==
    /\ Searched
    /\ Len(UpstreamPage) = 1
    /\ UpstreamPage[1].meta_data = Some(MetaIdOnly)
    /\ response.body.o.calls.a[1].o.id = JStr("c3")
    /\ response.body.o.calls.a[1].o.title = JStr("Untitled")
    /\ response.body.o.calls.a[1].o.duration = JNum(0)
    /\ response.body.o.calls.a[1].o.direction = JStr("")

----------------------------------------------------------------------------
(* The participant summary at its three sites *)

Counts(summary) == <<summary.o.total, summary.o.internal, summary.o.external>>

\* the (participant list, counts) pairs the response of session s shows
SummariesOf(s) ==
    IF ~(pc[s] = "done" /\ reply[s].ok /\ response[s].ok) THEN {}
    ELSE LET answer == Unwrap(reply[s].value)
             body == response[s].body.o
         IN  CASE frame[s].route = "CallDetail" ->
                    {<<Unwrap(answer.calls)[1].parties, Counts(body.participantSummary)>>}
               [] frame[s].route = "Participants" ->
                    {<<Unwrap(answer.calls)[1].parties, Counts(body.summary)>>}
               [] frame[s].route = "Search" ->
                    {<<UnwrapOr(answer.calls, << >>)[i].parties,
                       Counts(body.calls.a[i].o.participantSummary)>> :
                        i \in 1..Len(body.calls.a)}
               [] OTHER -> {}

----------------------------------------------------------------------------
(* The router against the grammar *)

\* uri begins with the calls prefix and ends with suffix
PrefixAndSuffix(uri, suffix) ==
    /\ Len(uri) >= Len("gong://calls/")
    /\ SubSeq(uri, 1, Len("gong://calls/")) = "gong://calls/"
    /\ Len(uri) >= Len(suffix)
    /\ SubSeq(uri, Len(uri) - Len(suffix) + 1, Len(uri)) = suffix

\* the text between the prefix and the suffix, when the two do not overlap
TextBetween(uri, suffix) ==
    IF Len(uri) >= Len("gong://calls/") + Len(suffix)
    THEN Some(Between(uri, Len("gong://calls/"), Len(suffix)))
    ELSE None

\* the grammar in its stated order: status, users, transcript,
\* participants, call detail, unrecognized
GrammarRoute(uri) ==
    IF uri = "gong://status" THEN [route |-> "Status", id |-> None]
    ELSE IF uri = "gong://users" THEN [route |-> "UserList", id |-> None]
    ELSE IF PrefixAndSuffix(uri, "/transcript")
    THEN [route |-> "Transcript", id |-> TextBetween(uri, "/transcript")]
    ELSE IF PrefixAndSuffix(uri, "/participants")
    THEN [route |-> "Participants", id |-> TextBetween(uri, "/participants")]
    ELSE IF PrefixAndSuffix(uri, "")
    THEN [route |-> "CallDetail", id |-> TextBetween(uri, "")]
    ELSE [route |-> "Unrecognized", id |-> None]

\* the route and the id the code arrives at
CodeRoute(uri) ==
    LET route == Route(uri) IN
    [route |-> route,
     id |-> CASE route = "Participants" -> ParticipantsCallId(uri)
              [] route = "Transcript" -> TranscriptCallId(uri)
              [] route = "CallDetail" -> CallDetailCallId(uri)
              [] OTHER -> None]

\* C27: the router of the code, which tests the participants suffix before
\* the transcript suffix, gives every URI the route and the extracted id of
\* the grammar checked in its stated order.
C27_RouterIsGrammar ==
    Reading =>
        /\ CodeRoute(request.uri) = GrammarRoute(request.uri)
        /\ frame.route = GrammarRoute(request.uri).route
        /\ upstream # << >> /\ frame.route \in {"Participants", "Transcript", "CallDetail"}
                => Some(frame.call_id) = GrammarRoute(request.uri).id

C27_Witness ==
    /\ Reading
    /\ request.uri = "gong://calls/transcript/participants"
    /\ frame.route = "Participants"
    /\ upstream # << >>
    /\ frame.call_id = "transcript"
    /\ GrammarRoute(request.uri) = [route |-> "Participants", id |-> Some("transcript")]

----------------------------------------------------------------------------
(* The speaker map *)

\* the participants of a list that declare a speaker id
Declaring(ps) == {i \in 1..Len(ps) : IsSome(ps[i].speaker_id)}

\* '<name> (<affiliation>)', Unknown standing in for what is absent
LabelOf(party) ==
    (IF IsSome(party.name) THEN Unwrap(party.name) ELSE "Unknown")
        \o " ("
        \o (IF IsSome(party.affiliation) THEN Unwrap(party.affiliation).variant
            ELSE "Unknown")
        \o ")"

\* C28: the speaker map of a participants response has an entry for the
\* speakerId of each participant declaring one and no other entry, each
\* label is '<name> (<affiliation>)' of such a participant with Unknown for
\* an absent name or affiliation; the entries are at most summary.speakers,
\* the number of participants declaring a speakerId, and fewer exactly when
\* two participants share a speakerId.
C28_SpeakerMap ==
    (Replied("Participants") /\ response.ok) =>
        LET ps == UnwrapOr(MatchedCalls[1].parties, << >>)
            map == response.body.o.speakerMap.o
            speakers == response.body.o.summary.o.speakers.n
        IN  /\ response.body.o.speakerMap.k = "object"
            /\ DOMAIN map = {Unwrap(ps[i].speaker_id) : i \in Declaring(ps)}
            /\ \A key \in DOMAIN map :
                    \E i \in Declaring(ps) :
                        ps[i].speaker_id = Some(key) /\ map[key] = JStr(LabelOf(ps[i]))
            /\ speakers = Cardinality(Declaring(ps))
            /\ Cardinality(DOMAIN map) <= speakers
            /\ (Cardinality(DOMAIN map) < speakers)
                    <=> \E i, j \in Declaring(ps) :
                            i # j /\ ps[i].speaker_id = ps[j].speaker_id

C28_Witness ==
    /\ Replied("Participants")
    /\ response.ok
    /\ MatchedCalls[1].parties
            = Some(<<PartyUnknown, PartyBare, PartyInternal, PartyAnonymous>>)
    /\ response.body.o.speakerMap
            = JObj([s1 |-> JStr("Ann (Internal)"), s4 |-> JStr("Unknown (Unknown)")])
    /\ response.body.o.summary.o.speakers = JNum(3)

----------------------------------------------------------------------------
(* Mapping of upstream failures *)

\* the message says the call was not found
SaysNotFound(text) == Contains(text, "404") \/ Contains(text, "not found")

\* the detail object of the error returned
ErrorDetail == Unwrap(response.error.data).o

\* C29: when the upstream call fails the operation returns an error and no
\* content; a failure of listCalls or listUsers is an api_error with the
\* upstream message, a failure of getCallTranscripts is call_not_found with
\* the call id when the message says not found and an api_error otherwise.
C29_FailureMapping ==
    UpstreamFailed =>
        /\ ~response.ok
        /\ response.body = Err(NoError).body
        /\ IsSome(response.error.data)
        /\ ErrorDetail.error = JStr(reply.error)
        /\ upstream[1].api \in {"listCalls", "listUsers"}
                => Failed("INTERNAL_ERROR", "api_error")
        /\ upstream[1].api = "getCallTranscripts" =>
                IF SaysNotFound(reply.error)
                THEN /\ Failed("RESOURCE_NOT_FOUND", "call_not_found")
                     /\ ErrorDetail.callId = JStr(frame.call_id)
                     /\ request.uri = CallsPrefix \o frame.call_id \o TranscriptSuffix
                ELSE Failed("INTERNAL_ERROR", "api_error")

C29_Witness ==
    /\ UpstreamFailed
    /\ upstream[1].api = "getCallTranscripts"
    /\ request.uri = "gong://calls/123456/transcript"
    /\ reply = UpErr("error in response: status code 404 Not Found")
    /\ Failed("RESOURCE_NOT_FOUND", "call_not_found")
    /\ ErrorDetail.callId = JStr("123456")

----------------------------------------------------------------------------
(* The user list *)

\* the users of the upstream answer; an absent list holds none
AnsweredUsers == UnwrapOr(Answer.users, << >>)

\* a field of an upstream user as the response shows it
Shown(field, default) == IF IsSome(field) THEN Unwrap(field) ELSE default

\* C30: reading gong://users on a configured server issues one listUsers
\* call with no cursor and returns every upstream user in upstream order,
\* id, email, firstName and lastName defaulting to "" and active to false;
\* count is the length of the users array; an answer without a user list is
\* a success with an empty array and count 0.
C30_Users ==
    /\ (Reading /\ EnvComplete /\ request.uri = "gong://users") =>
            /\ Len(upstream) = 1
            /\ upstream[1].api = "listUsers"
            /\ upstream[1].params.cursor = None
    /\ Replied("UserList") =>
            /\ response.ok
            /\ response.body.o.users.k = "array"
            /\ Len(response.body.o.users.a) = Len(AnsweredUsers)
            /\ response.body.o.count = JNum(Len(response.body.o.users.a))
            /\ \A i \in 1..Len(AnsweredUsers) :
                    LET user == AnsweredUsers[i]
                        shown == response.body.o.users.a[i].o
                    IN  /\ shown.id = JStr(Shown(user.id, ""))
                        /\ shown.email = JStr(Shown(user.email_address, ""))
                        /\ shown.firstName = JStr(Shown(user.first_name, ""))
                        /\ shown.lastName = JStr(Shown(user.last_name, ""))
                        /\ shown.active = JBool(Shown(user.active, FALSE))
            /\ IsNone(Answer.users) =>
                    (response.body.o.users = JArr(<< >>) /\ response.body.o.count = JNum(0))

C30_Witness ==
    /\ Replied("UserList")
    /\ Len(AnsweredUsers) = 2
    /\ AnsweredUsers[1].id = Some("u1")
    /\ AnsweredUsers[2].id = None
    /\ response.body.o.count = JNum(2)
    /\ response.body.o.users.a[1].o.email = JStr("ann@corp.example")
    /\ response.body.o.users.a[2].o.id = JStr("")
    /\ response.body.o.users.a[2].o.active = JBool(FALSE)

====
